---- MODULE Spec2Model ----
(***************************************************************************)
(* Model of the IDT 8T49N24x clock-generator driver (src/xfmc/idt.c):      *)
(* set_clock, idt_cal_settings, idt_get_int_divtable, the register         *)
(* encoders and the register-write sequence they issue.                    *)
(*                                                                         *)
(* Frequencies are carried in Hz exactly as the C code carries them.  The  *)
(* integers TLC evaluates are 32-bit signed, so the C unsigned 32-bit and  *)
(* 64-bit quantities are carried as five 15-bit limbs, least significant   *)
(* first; every C operation is truncated at the width the C type gives it. *)
(***************************************************************************)
EXTENDS Integers, Sequences, FiniteSets, TLC

(***************************************************************************)
(* Fixed-width unsigned arithmetic (u32 / u64 / unsigned int of the code). *)
(***************************************************************************)
Base == 2^15

Limbs == 1..5

\* Every operator below binds its operands as the element of a one-element
\* set before it uses them, so that an operand is evaluated once, where the
\* operator is applied, and not again at each place the body mentions it.

\* int (0 <= n < 2^31) converted to an unsigned wide value
W(n) ==
    CHOOSE r \in { <<v % Base, (v \div Base) % Base, v \div (Base * Base), 0, 0>> :
                   v \in {n} } : TRUE

WZero == <<0, 0, 0, 0, 0>>

\* carry (or borrow) propagation; the top limb absorbs what is left
Carry(t) ==
    CHOOSE r \in
      { LET l2 == v[2] + (v[1] \div Base)
            l3 == v[3] + (l2 \div Base)
            l4 == v[4] + (l3 \div Base)
            l5 == v[5] + (l4 \div Base)
        IN  <<v[1] % Base, l2 % Base, l3 % Base, l4 % Base, l5>> : v \in {t} } : TRUE

\* truncation to the width of a C type
U64(t) == CHOOSE r \in { <<v[1], v[2], v[3], v[4], v[5] % 16>> : v \in {t} } : TRUE
U32(t) == CHOOSE r \in { <<v[1], v[2], v[3] % 4, 0, 0>> : v \in {t} } : TRUE

WAddRaw(a, b) ==
    CHOOSE r \in { Carry([k \in Limbs |-> x[1][k] + x[2][k]]) : x \in {<<a, b>>} } : TRUE
WSubRaw(a, b) ==
    CHOOSE r \in { Carry([k \in Limbs |-> x[1][k] - x[2][k]]) : x \in {<<a, b>>} } : TRUE
WMulSmall(a, s) ==
    CHOOSE r \in { Carry([k \in Limbs |-> x[1][k] * x[2]]) : x \in {<<a, s>>} } : TRUE
WShl(a, n) ==
    CHOOSE r \in { [k \in Limbs |-> IF k > x[2] THEN x[1][k - x[2]] ELSE 0] :
                   x \in {<<a, n>>} } : TRUE

\* product modulo 2^75 (the top limb wraps), enough for any 64-bit result:
\* the partial products a * b[j], each shifted by j - 1 limbs, added up
WMulRaw(a, b) ==
    CHOOSE r \in
      { <<c[1], c[2], c[3], c[4], c[5] % Base>> : c \in
        { Carry([k \in Limbs |->
                   p[1][k] + (IF k > 1 THEN p[2][k - 1] ELSE 0)
                           + (IF k > 2 THEN p[3][k - 2] ELSE 0)
                           + (IF k > 3 THEN p[4][k - 3] ELSE 0)
                           + (IF k > 4 THEN p[5][k - 4] ELSE 0)]) : p \in
          { <<WMulSmall(x[1], x[2][1]), WMulSmall(x[1], x[2][2]),
              WMulSmall(x[1], x[2][3]), WMulSmall(x[1], x[2][4]),
              WMulSmall(x[1], x[2][5])>> : x \in {<<a, b>>} } } } : TRUE

WLt(a, b) ==
    \E x \in {<<a, b>>} :
        \/ x[1][5] < x[2][5]
        \/ x[1][5] = x[2][5] /\ x[1][4] < x[2][4]
        \/ x[1][5] = x[2][5] /\ x[1][4] = x[2][4] /\ x[1][3] < x[2][3]
        \/ x[1][5] = x[2][5] /\ x[1][4] = x[2][4] /\ x[1][3] = x[2][3]
             /\ x[1][2] < x[2][2]
        \/ x[1][5] = x[2][5] /\ x[1][4] = x[2][4] /\ x[1][3] = x[2][3]
             /\ x[1][2] = x[2][2] /\ x[1][1] < x[2][1]
WLe(a, b) == ~WLt(b, a)

\* one step of long division in base 2^15: qr is <<quotient, remainder>> of
\* a by b * 2^15, the result is that of a by b.  The digit is the largest d
\* below 2^15 with d * b <= remainder, found five bits at a time: each round
\* counts the multiples of its step that still fit.
DivStep(qr, b) ==
    LET Round(d, step) ==
            d + step * Cardinality({ j \in 1..31 :
                                     WLe(WMulSmall(b, d + j * step), qr[2]) })
    IN  CHOOSE res \in
          { <<WAddRaw(WMulSmall(qr[1], Base), W(d0)), WSubRaw(qr[2], WMulSmall(b, d0))>> :
            d0 \in { Round(d1, 1) : d1 \in { Round(d2, 32) : d2 \in { Round(0, 1024) } } } } : TRUE

\* <<quotient, remainder>> of a by b, b > 0, a below 2^75.  From(x, y, k) is
\* that of x by y * 2^(15 * k): when the shifted divisor does not fit the
\* five limbs, or exceeds x, the quotient is 0.
WDivMod(a, b) ==
    LET RECURSIVE From(_, _, _)
        From(x, y, k) ==
            IF k > 4 \/ (\E j \in (6 - k)..5 : y[j] # 0) \/ WLt(x, WShl(y, k))
            THEN <<WZero, x>>
            ELSE CHOOSE s \in { DivStep(qr, WShl(y, k)) : qr \in { From(x, y, k + 1) } } : TRUE
    IN  CHOOSE res \in { From(v[1], v[2], 0) : v \in {<<a, b>>} } : TRUE

\* C operators at their widths
Add64(a, b) == U64(WAddRaw(a, b))
Sub64(a, b) == U64(WSubRaw(a, b))
Mul64(a, b) == U64(WMulRaw(a, b))
Mul32(a, b) == U32(WMulRaw(a, b))
Div64(a, b) == WDivMod(a, b)[1]
Mod64(a, b) == WDivMod(a, b)[2]

\* value of a wide number known to be below 2^31
ToInt(t) == CHOOSE r \in { v[1] + Base * v[2] + Base * Base * v[3] : v \in {t} } : TRUE
FitsInt(t) == \E v \in {t} : v[5] = 0 /\ v[4] = 0 /\ v[3] < 2

\* (int) of a u64: the low 32 bits read as a signed two's-complement int
ToS32(t) ==
    CHOOSE r \in
      { LET top == v[3] % 4
        IN  v[1] + Base * v[2] + Base * Base * (IF top >= 2 THEN top - 4 ELSE top) :
        v \in {t} } : TRUE


(***************************************************************************)
(* Program constants (idt.c lines 28-38).                                  *)
(***************************************************************************)
IDT_8T49N24X_XTAL_FREQ == 40000000
IDT_8T49N24X_FVCO_MAX == WMulRaw(W(4000), W(1000000))
IDT_8T49N24X_FVCO_MIN == WMulRaw(W(3000), W(1000000))
IDT_8T49N24X_FOUT_MAX == 400000000
IDT_8T49N24X_FOUT_MIN == 8000
IDT_8T49N24X_FIN_MAX == 875000000
IDT_8T49N24X_FIN_MIN == 8000
IDT_8T49N24X_FPD_MAX == 128000
IDT_8T49N24X_P_MAX == 4194304
IDT_8T49N24X_M_MAX == 16777216

\* int divtbl[20] in idt_cal_settings
DIVTBL_SIZE == 20

\* the value of a local that has not been assigned
Uninit == 0 - 1

IntMin == (0 - 2147483647) - 1

\* the kernel's abs() on an int; -INT_MIN wraps back to INT_MIN
abs(v) == IF v = IntMin THEN v ELSE IF v < 0 THEN 0 - v ELSE v

(***************************************************************************)
(* idt_get_int_divtable (bypass == false, so index == 1).                  *)
(***************************************************************************)
ns1_opts == <<1, 4, 5, 6>>

NS1_INDEX == 2   \* ns1_opts[index] with index == 1, counted from 1 here

\* What an integer division by zero can do: the CPU traps (x86), or the
\* quotient is 0 and the remainder is the dividend (arm64 udiv/sdiv + msub).
DivZeroOutcomes == {"trap", "zero"}

\* <<quotient, remainder>> of the 64-bit a by the int d; for d = 0 this is
\* the non-trapping outcome (the trap is taken in the actions)
DivBy(a, d) == IF d = 0 THEN <<WZero, a>> ELSE WDivMod(a, W(d))

\* mutant: the quotient is not rounded up
outdiv_min_floor(freq_out) ==
    ToS32(DivBy(IDT_8T49N24X_FVCO_MIN, freq_out)[1])

\* ceil(FVCO_MIN / freq_out), stored in an int
outdiv_min_of(freq_out) ==
    LET qr == DivBy(IDT_8T49N24X_FVCO_MIN, freq_out)
    IN  ToS32(WAddRaw(qr[1], IF qr[2] = WZero THEN WZero ELSE W(1)))

\* floor(FVCO_MAX / freq_out), stored in an int
outdiv_max_of(freq_out) ==
    ToS32(DivBy(IDT_8T49N24X_FVCO_MAX, freq_out)[1])

\* the loop of lines 136-142: some ns1 option equals outdiv_min or outdiv_max
\* mutant: an ns1 option inside the divider range counts as the bypass case
BypassCaseWithin(outdiv_min, outdiv_max) ==
    \E k \in NS1_INDEX..Len(ns1_opts) :
        ns1_opts[k] <= outdiv_min \/ ns1_opts[k] = outdiv_max

BypassCase(outdiv_min, outdiv_max) ==
    \E k \in NS1_INDEX..Len(ns1_opts) :
        ns1_opts[k] = outdiv_min \/ ns1_opts[k] = outdiv_max

ns2_min_of(outdiv_min, outdiv_max) ==
    IF BypassCase(outdiv_min, outdiv_max) THEN 0
    ELSE ((outdiv_min \div ns1_opts[4]) \div 2)
         + (IF (outdiv_min \div ns1_opts[4]) % 2 = 0 THEN 0 ELSE 1)

\* mutant: the upper bound is taken with the largest ns1 option
ns2_max_short(outdiv_min, outdiv_max) ==
    IF BypassCase(outdiv_min, outdiv_max) THEN 0
    ELSE LET m == (outdiv_max \div ns1_opts[4]) \div 2
         IN  IF m = 0 THEN 1 ELSE m

ns2_max_of(outdiv_min, outdiv_max) ==
    IF BypassCase(outdiv_min, outdiv_max) THEN 0
    ELSE LET m == (outdiv_max \div ns1_opts[NS1_INDEX]) \div 2
         IN  IF m = 0 THEN 1 ELSE m

outdiv_tmp_of(ns1, ns2_tmp) == IF ns2_tmp = 0 THEN ns1 ELSE ns1 * ns2_tmp * 2

\* vco_tmp = freq_out * outdiv_tmp : an int product stored in a u32
vco_tmp_of(freq_out, outdiv_tmp) == Mul32(W(freq_out), W(outdiv_tmp))

\* mutant: the upper bound of the acceptance test is left out
VcoAcceptedNoMax(vco_tmp) == WLe(IDT_8T49N24X_FVCO_MIN, vco_tmp)

VcoAccepted(vco_tmp) ==
    WLe(vco_tmp, IDT_8T49N24X_FVCO_MAX) /\ WLe(IDT_8T49N24X_FVCO_MIN, vco_tmp)

\* the candidates one pass of the while loop appends, in the order of the
\* inner for loop
RECURSIVE PassAccepted(_, _, _)
PassAccepted(freq_out, ns2_tmp, k) ==
    IF k > Len(ns1_opts) THEN <<>>
    ELSE LET od == outdiv_tmp_of(ns1_opts[k], ns2_tmp)
         IN  (IF VcoAccepted(vco_tmp_of(freq_out, od)) THEN <<od>> ELSE <<>>)
             \o PassAccepted(freq_out, ns2_tmp, k + 1)

(***************************************************************************)
(* idt_cal_settings, lines 214-343: the straight-line part.                *)
(***************************************************************************)
RECURSIVE MaxDivFrom(_, _, _)
MaxDivFrom(divtbl, k, max_div) ==
    IF k > Len(divtbl) THEN max_div
    ELSE MaxDivFrom(divtbl, k + 1, IF max_div < divtbl[k] THEN divtbl[k] ELSE max_div)

max_div_of(divtbl) == MaxDivFrom(divtbl, 1, 0)

\* fvco = freq_out * max_div : an int product stored in an unsigned int
fvco_of(freq_out, max_div) == Mul32(W(freq_out), W(max_div))

\* the three ifs of lines 237-259, in order; Uninit when none assigns ns1
ns1_of(max_div) ==
    LET a == IF max_div = 4 \/ max_div % 8 = 0 THEN 2 ELSE Uninit
        b == IF max_div = 5 \/ max_div % 10 = 0 THEN 0 ELSE a
    IN  IF max_div = 6 \/ max_div % 12 = 0 THEN 1 ELSE b

\* mutant: the divide-by-4 and divide-by-5 codes are exchanged
ns1_ratio_swapped(ns1) ==
    CASE ns1 = 0 -> 4
      [] ns1 = 1 -> 6
      [] ns1 = 2 -> 5
      [] ns1 = 3 -> 1
      [] OTHER   -> 6

ns1_ratio_of(ns1) ==
    CASE ns1 = 0 -> 5
      [] ns1 = 1 -> 6
      [] ns1 = 2 -> 4
      [] ns1 = 3 -> 1
      [] OTHER   -> 6

ns2_of(max_div, ns1) == (max_div \div ns1_ratio_of(ns1)) \div 2

\* mutant: the integer part of an odd divider is rounded down
n_q2_floor(max_div) == max_div \div 2

n_q2_of(max_div) == IF max_div % 2 = 0 THEN max_div \div 2 ELSE (max_div + 1) \div 2

nfrac_q2_of(max_div) == IF max_div % 2 = 0 THEN 0 ELSE 268435456 \div 2

\* UpperFBDiv and UpperFBDiv_rem: fvco by 2 * XTAL
dsm_int_of(fvco) == ToInt(Div64(fvco, W(2 * IDT_8T49N24X_XTAL_FREQ)))

UpperFBDiv_rem_of(fvco) == Mod64(fvco, W(2 * IDT_8T49N24X_XTAL_FREQ))

\* mutant: the quotient is truncated, the rounding term is left out
dsm_frac_trunc(fvco) ==
    ToInt(Div64(Mul64(UpperFBDiv_rem_of(fvco), W(2048)), W(78125)))

\* dsm_frac = ((u64)UpperFBDiv_rem * 2048 + (78125 >> 1)) / 78125
dsm_frac_of(fvco) ==
    ToInt(Div64(Add64(Mul64(UpperFBDiv_rem_of(fvco), W(2048)), W(78125 \div 2)),
                W(78125)))

p_min_of(freq_in) == freq_in \div IDT_8T49N24X_FPD_MAX

(***************************************************************************)
(* idt_cal_settings, lines 353-379: one pass of the feedback scan.         *)
(***************************************************************************)
\* m1 = ((u64)fvco * i + (freq_in >> 1)) / freq_in
scan_m1(fvco, i, freq_in) ==
    DivBy(Add64(Mul64(fvco, W(i)), W(freq_in \div 2)), freq_in)[1]

\* temp = ((u64)fvco*i - (u64)m1*freq_in) * 1000000
scan_temp(fvco, i, m1, freq_in) ==
    Mul64(Sub64(Mul64(fvco, W(i)), Mul64(m1, W(freq_in))), W(1000000))

\* temp1 = (u64)i * freq_in / 1000
scan_temp1(i, freq_in) == Div64(Mul64(W(i), W(freq_in)), W(1000))

\* error_tmp = (int)(temp / temp1); a zero temp1 gives quotient 0 where the
\* division does not trap
scan_error_tmp(fvco, i, m1, freq_in) ==
    LET t1 == scan_temp1(i, freq_in)
    IN  IF t1 = WZero THEN 0
        ELSE ToS32(Div64(scan_temp(fvco, i, m1, freq_in), t1))

\* mutant: the lower limit of 6 is left out
los_of_noclamp(fvco, freq_in) ==
    ToS32(DivBy(Div64(fvco, W(8)), freq_in)[1]) + 3

\* Calculate los: fvco / 8 / freq_in + 3, at least 6
los_of(fvco, freq_in) ==
    LET los == ToS32(DivBy(Div64(fvco, W(8)), freq_in)[1]) + 3
    IN  IF los < 6 THEN 6 ELSE los


(***************************************************************************)
(* Register encoders (lines 403-555, 607-631): the <<address, data>> pairs *)
(* each one writes, in order.  data is a u8: a shifted value is cut to its *)
(* low 8 bits by the assignment.                                           *)
(***************************************************************************)
Shr(v, n) == v \div (2^n)
U8(v) == v % 256
BitAnd(v, width) == v % (2^width)    \* v & (2^width - 1)

\* mutant: PREx[20:16] masked with 0x0f
idt_pre_div_mask4(val, input) ==
    LET addr == IF input = 1 THEN 14 ELSE 11
    IN  << <<addr,     BitAnd(Shr(val, 16), 4)>>,
           <<addr + 1, U8(Shr(val, 8))>>,
           <<addr + 2, BitAnd(val, 8)>> >>

idt_pre_div(val, input) ==
    LET addr == IF input = 1 THEN 14 ELSE 11
    IN  << <<addr,     BitAnd(Shr(val, 16), 5)>>,
           <<addr + 1, U8(Shr(val, 8))>>,
           <<addr + 2, BitAnd(val, 8)>> >>

\* mutant: the input-1 multiplier is written at the input-1 pre-divider
idt_m1_feedback_alias(val, input) ==
    LET addr == IF input = 1 THEN 14 ELSE 20
    IN  << <<addr,     U8(Shr(val, 16))>>,
           <<addr + 1, U8(Shr(val, 8))>>,
           <<addr + 2, BitAnd(val, 8)>> >>

idt_m1_feedback(val, input) ==
    LET addr == IF input = 1 THEN 17 ELSE 20
    IN  << <<addr,     U8(Shr(val, 16))>>,
           <<addr + 1, U8(Shr(val, 8))>>,
           <<addr + 2, BitAnd(val, 8)>> >>

idt_dsm_int(val) ==
    << <<37, BitAnd(Shr(val, 8), 1)>>,
       <<38, BitAnd(val, 8)>> >>

idt_dsm_frac(val) ==
    << <<40, BitAnd(Shr(val, 16), 5)>>,
       <<41, U8(Shr(val, 8))>>,
       <<42, BitAnd(val, 8)>> >>

idt_outdiv_int(val, output) ==
    LET addr == CASE output = 0 -> 63
                  [] output = 1 -> 66
                  [] output = 2 -> 69
                  [] output = 3 -> 72
    IN  << <<addr,     BitAnd(Shr(val, 16), 2)>>,
           <<addr + 1, U8(Shr(val, 8))>>,
           <<addr + 2, BitAnd(val, 8)>> >>

idt_outdiv_frac(val, output) ==
    LET addr == CASE output = 0 -> 0
                  [] output = 1 -> 87
                  [] output = 2 -> 91
                  [] output = 3 -> 95
    IN  << <<addr,     BitAnd(Shr(val, 24), 4)>>,
           <<addr + 1, U8(Shr(val, 16))>>,
           <<addr + 2, U8(Shr(val, 8))>>,
           <<addr + 3, BitAnd(val, 8)>> >>

idt_in_monitor_ctrl(val, input) ==
    LET addr == IF input = 1 THEN 116 ELSE 113
    IN  << <<addr,     BitAnd(Shr(val, 16), 1)>>,
           <<addr + 1, U8(Shr(val, 8))>>,
           <<addr + 2, BitAnd(val, 8)>> >>

\* idt_modify_reg: data &= ~mask; data |= (val & mask), bit by bit
Bit(v, b) == Shr(v, b) % 2
RECURSIVE MergeBits(_, _, _, _)
MergeBits(data, val, mask, b) ==
    IF b = 8 THEN 0
    ELSE (2^b) * (IF Bit(mask, b) = 1 THEN Bit(val, b) ELSE Bit(data, b))
         + MergeBits(data, val, mask, b + 1)
\* mutant: the byte is stored without the bits read from the device
idt_modify_reg_overwrite(data, val, mask) == MergeBits(0, val, mask, 0)

idt_modify_reg(data, val, mask) == MergeBits(data, val, mask, 0)


(***************************************************************************)
(* The bus transfers of set_clock (lines 683-730), in program order.       *)
(* kind "write": idt_write_reg(addr, val).  An idt_modify_reg call is a    *)
(* "read" (regmap_read into data) followed by a "modify" (idt_write_reg of *)
(* the merged data).  last = the status of this transfer is what the       *)
(* helper returns, so set_clock assigns it to ret.                         *)
(***************************************************************************)
CAL_REG == 112        \* 0x0070
MODE_REG == 10        \* 0x000a
SYN_REG == 105        \* 0x0069

WriteOp(addr, val, last) ==
    [kind |-> "write", addr |-> addr, val |-> val, mask |-> 255, last |-> last]

ModifyOps(addr, val, mask, last) ==
    << [kind |-> "read", addr |-> addr, val |-> 0, mask |-> 0, last |-> FALSE],
       [kind |-> "modify", addr |-> addr, val |-> val, mask |-> mask, last |-> last] >>

\* the writes of one encoder call; the call returns the status of its last
EncoderOps(pairs) ==
    [k \in 1..Len(pairs) |-> WriteOp(pairs[k][1], pairs[k][2], k = Len(pairs))]

\* idt_ref_input(idt, input, false)
idt_ref_input(input) ==
    LET shift == IF input = 1 THEN 5 ELSE 4
    IN  ModifyOps(MODE_REG, 2^shift, 2^shift, TRUE)

\* idt_set_mode(idt, true)
idt_set_mode ==
    ModifyOps(MODE_REG, 1 + 2^4 + 2^5, 51, FALSE) \o ModifyOps(SYN_REG, 2^3, 2^3, TRUE)

\* lines 686-727: everything between the two calibration writes
ProgramBody(s) ==
    idt_ref_input(0)
    \o idt_ref_input(1)
    \o idt_set_mode
    \o EncoderOps(idt_pre_div(s.pre_x, 0))
    \o EncoderOps(idt_pre_div(s.pre_x, 1))
    \o EncoderOps(idt_m1_feedback(s.m1_x, 0))
    \o EncoderOps(idt_m1_feedback(s.m1_x, 1))
    \o EncoderOps(idt_dsm_int(s.dsm_int))
    \o EncoderOps(idt_dsm_frac(s.dsm_frac))
    \o EncoderOps(idt_outdiv_int(s.n_qx, 2))
    \o EncoderOps(idt_outdiv_int(s.n_qx, 3))
    \o EncoderOps(idt_outdiv_frac(s.nfrac_qx, 2))
    \o EncoderOps(idt_outdiv_frac(s.nfrac_qx, 3))
    \o EncoderOps(idt_in_monitor_ctrl(s.los_x, 0))
    \o EncoderOps(idt_in_monitor_ctrl(s.los_x, 1))

\* mutant: calibration is re-enabled before the loss-of-signal registers
\* are programmed
ProgramEnableEarly(s) ==
    LET body == ProgramBody(s)
        n == Len(body) - 6
    IN  << WriteOp(CAL_REG, 5, FALSE) >>
        \o SubSeq(body, 1, n)
        \o << WriteOp(CAL_REG, 0, TRUE) >>
        \o SubSeq(body, n + 1, Len(body))

\* lines 683-730
Program(s) ==
    << WriteOp(CAL_REG, 5, FALSE) >>
    \o ProgramBody(s)
    \o << WriteOp(CAL_REG, 0, TRUE) >>

\* mutant: set_clock returns at the first transfer that fails
NextTransferAbort(at, st, n) == IF st = 0 THEN at + 1 ELSE n + 1

\* set_clock tests no status: after the transfer at position at of n, with
\* status st, the next one follows
NextTransfer(at, st, n) == at + 1

(***************************************************************************)
(* The device after idt_probe: idt_init has written the table below to     *)
(* addresses 8.. (0x70 excepted, left at 0x00) and the probe has set the   *)
(* GPIO registers 0x30, 0x34, 0x35, 0x36.                                  *)
(***************************************************************************)
IDT_8T49N24x_Config_JA ==
    << 255, 255, 255, 255, 255, 254, 239,   0,   3,   0,  32,   0,
         4, 137,   0,   0,   1,   0,  99, 198,   7,   0,   0, 119,
       109,   0,   0,   0,   0,   0,   0, 255, 255, 255, 255,   1,
        63,   0,  40,   0,  26, 204, 205,   0,   1,   0,   0, 208,
         8,   0,   0,   0,   0,   0,   8,   0,   0,  12,   0,   0,
         0,  68,  68,   0,   0,   0,   0,   0,   0,   0,   0,  11,
         0,   0,  11,   0,   0,   0,   0,   0,   0,   0,   0,   0,
         0,   0,   0,   0,   0,   0,   0,   0,   0,   0,   0,   0,
         0,   0,   0,   0,   0,   0,   0,   0, 137,   2,  43,  32,
         0,   0,   0,   3,   0,   0,   0,   6,   0,   0,   0,   0,
         0,   0,  39,   0,   0,   0,   0,   0,   0,   0,   0,   0 >>

RegAddrs == 0..(Len(IDT_8T49N24x_Config_JA) - 1)

ProbedRegs ==
    [a \in RegAddrs |->
        CASE a = CAL_REG -> 0
          [] a = 48 -> 15
          [] a = 52 -> 0
          [] a = 53 -> 0
          [] a = 54 -> 15
          [] OTHER -> IDT_8T49N24x_Config_JA[a + 1]]

(***************************************************************************)
(* State.                                                                  *)
(***************************************************************************)
Callers == {1, 2}

\* the error codes a failing regmap transfer returns here (-EIO, -ENXIO)
Errnos == {0 - 5, 0 - 6}

\* what a read of an unassigned local can yield
UninitInts == {0, 2147483647}
UninitBytes == {0, 255}

VARIABLES
    pc,        \* where each caller of set_clock stands
    req,       \* [freq_in, freq_out] each caller passes
    frame,     \* the locals of idt_cal_settings and idt_get_int_divtable
    settings,  \* struct idt_settings of each caller
    prog,      \* the bus transfers set_clock makes for these settings
    ip,        \* the next bus transfer of prog
    data,      \* idt_modify_reg's local data
    ret,       \* set_clock's ret
    issued,    \* the register writes each caller has issued: <<addr, val, status>>
    regs,      \* the device's registers
    lock,      \* struct idts.lock: the caller holding it, 0 when free
    cal,       \* the most recent write to 0x0070: who issued it and its value
    bus,       \* the most recent register write, with cal as it was before it
    faults     \* bus transfers that may still fail

vars == <<pc, req, frame, settings, prog, ip, data, ret, issued, regs, lock, cal, bus, faults>>

NoFrame ==
    [outdiv_min |-> 0, outdiv_max |-> 0, ns2_tmp |-> 0, ns2_max |-> 0,
     divtbl |-> <<>>, max_div |-> 0, fvco |-> WZero, ns1 |-> Uninit, ns2 |-> 0,
     n_q2 |-> 0, nfrac_q2 |-> 0, dsm_int |-> 0, dsm_frac |-> 0, p_min |-> 0,
     i |-> 0, count |-> 0, error_tmp |-> 999999, error |-> 99999999,
     m1_default |-> Uninit, p_default |-> Uninit]

NoSettings ==
    [dsm_frac |-> Uninit, m1_x |-> Uninit, pre_x |-> Uninit, los_x |-> Uninit,
     n_qx |-> Uninit, nfrac_qx |-> Uninit, ns2_qx |-> Uninit, dsm_int |-> Uninit,
     ns1_qx |-> Uninit]


(***************************************************************************)
(* The requests the model draws from: <<freq_in, freq_out>> in Hz.         *)
(***************************************************************************)
InRangeRequests ==
    { <<40000000, 148500000>>,     \* the HDMI 148.5 MHz plan
      <<40000000, 100000000>>,
      <<40000000, 400000000>>,     \* FOUT_MAX
      <<40000000, 16000000>>,      \* 20 divider candidates
      <<40000000, 15000000>>,      \* 22 divider candidates
      <<875000000, 100000000>>,    \* FIN_MAX
      <<839999997, 279999999>>,
      <<8000, 148500000>> }        \* FIN_MIN

OutOfRangeRequests ==
    { <<40000000, 0>>,
      <<40000000, 450000000>>,
      <<7999, 148500000>>,
      <<900000000, 300000000>> }

Requests == InRangeRequests \cup OutOfRangeRequests

\* the requests two concurrent callers make
ConcRequests == { <<40000000, 148500000>> }

\* bus transfers that may fail during one run
MaxFaults == 1

(***************************************************************************)
(* set_clock, lines 663-681: entry and the two range checks.               *)
(***************************************************************************)
InputRejected(freq_in) ==
    freq_in < IDT_8T49N24X_FIN_MIN /\ freq_in > IDT_8T49N24X_FIN_MAX

OutputRejected(freq_out) ==
    freq_out < IDT_8T49N24X_FOUT_MIN /\ freq_out > IDT_8T49N24X_FOUT_MAX

Call(c) ==
    /\ pc[c] = "idle"
    /\ IF InputRejected(req[c].freq_in) \/ OutputRejected(req[c].freq_out)
       THEN /\ ret' = [ret EXCEPT ![c] = 1]
            /\ pc' = [pc EXCEPT ![c] = "done"]
       ELSE /\ ret' = ret
            /\ pc' = [pc EXCEPT ![c] = "divtable"]
    /\ UNCHANGED <<req, frame, settings, prog, ip, data, issued, regs, lock, cal, bus, faults>>

(***************************************************************************)
(* idt_get_int_divtable, lines 108-158: up to the while loop.              *)
(***************************************************************************)
DivTableEnter(c) ==
    /\ pc[c] = "divtable"
    /\ LET freq_out == req[c].freq_out
           omin == outdiv_min_of(freq_out)
           omax == outdiv_max_of(freq_out)
       IN  \E o \in (IF freq_out = 0 THEN DivZeroOutcomes ELSE {"zero"}) :
             IF o = "trap"
             THEN /\ pc' = [pc EXCEPT ![c] = "oops"]
                  /\ frame' = frame
             ELSE /\ pc' = [pc EXCEPT ![c] = "divloop"]
                  /\ frame' = [frame EXCEPT ![c] =
                        [@ EXCEPT !.outdiv_min = omin, !.outdiv_max = omax,
                                  !.ns2_tmp = ns2_min_of(omin, omax),
                                  !.ns2_max = ns2_max_of(omin, omax)]]
    /\ UNCHANGED <<req, settings, prog, ip, data, ret, issued, regs, lock, cal, bus, faults>>

(***************************************************************************)
(* idt_get_int_divtable, lines 160-179: one pass of the while loop.  A     *)
(* store past divtbl[19] either brings the kernel down or lands in memory  *)
(* next to the array and the run goes on.                                  *)
(***************************************************************************)
OverflowOutcomes == {"oops", "beyond"}

DivTablePass(c) ==
    /\ pc[c] = "divloop"
    /\ frame[c].ns2_tmp <= frame[c].ns2_max
    /\ LET tbl == frame[c].divtbl
                  \o PassAccepted(req[c].freq_out, frame[c].ns2_tmp, NS1_INDEX)
       IN  \E o \in (IF Len(tbl) > DIVTBL_SIZE /\ Len(tbl) > Len(frame[c].divtbl)
                     THEN OverflowOutcomes ELSE {"beyond"}) :
             IF o = "oops"
             THEN /\ pc' = [pc EXCEPT ![c] = "oops"]
                  /\ frame' = frame
             ELSE /\ pc' = pc
                  /\ frame' = [frame EXCEPT ![c] =
                        [@ EXCEPT !.divtbl = tbl, !.ns2_tmp = @ + 1]]
    /\ UNCHANGED <<req, settings, prog, ip, data, ret, issued, regs, lock, cal, bus, faults>>

(***************************************************************************)
(* idt_cal_settings, lines 212-343: the table is complete; select the      *)
(* highest divider and compute everything up to the start of the scan.     *)
(***************************************************************************)
CalSettings(c) ==
    /\ pc[c] = "divloop"
    /\ frame[c].ns2_tmp > frame[c].ns2_max
    /\ LET max_div == max_div_of(frame[c].divtbl)
           fvco == fvco_of(req[c].freq_out, max_div)
           p_min == p_min_of(req[c].freq_in)
       IN  \E ns1 \in (IF ns1_of(max_div) = Uninit THEN UninitBytes
                       ELSE {ns1_of(max_div)}) :
             frame' = [frame EXCEPT ![c] =
                 [@ EXCEPT !.max_div = max_div, !.fvco = fvco, !.ns1 = ns1,
                           !.ns2 = ns2_of(max_div, ns1),
                           !.n_q2 = n_q2_of(max_div),
                           !.nfrac_q2 = nfrac_q2_of(max_div),
                           !.dsm_int = dsm_int_of(fvco),
                           !.dsm_frac = dsm_frac_of(fvco),
                           !.p_min = p_min, !.i = p_min]]
    /\ pc' = [pc EXCEPT ![c] = "scan"]
    /\ UNCHANGED <<req, settings, prog, ip, data, ret, issued, regs, lock, cal, bus, faults>>

(***************************************************************************)
(* idt_cal_settings, lines 353-379: one pass of the for loop (the loop     *)
(* test, then the body).                                                   *)
(***************************************************************************)
ScanPass(c) ==
    /\ pc[c] = "scan"
    /\ LET f == frame[c]
           freq_in == req[c].freq_in
           m1 == scan_m1(f.fvco, f.i, freq_in)
           in_range == WLt(m1, W(IDT_8T49N24X_M_MAX))
           divides_by_zero ==
               freq_in = 0 \/ (in_range /\ scan_temp1(f.i, freq_in) = WZero)
           error_tmp == scan_error_tmp(f.fvco, f.i, m1, freq_in)
           better == abs(error_tmp) < f.error \/ error_tmp = 0
       IN  IF f.i > IDT_8T49N24X_P_MAX
           THEN /\ pc' = [pc EXCEPT ![c] = "los"]
                /\ frame' = frame
           ELSE \E o \in (IF divides_by_zero THEN DivZeroOutcomes ELSE {"zero"}) :
                  IF o = "trap"
                  THEN /\ pc' = [pc EXCEPT ![c] = "oops"]
                       /\ frame' = frame
                  ELSE IF ~in_range
                  THEN /\ pc' = [pc EXCEPT ![c] = "los"]
                       /\ frame' = [frame EXCEPT ![c] = [@ EXCEPT !.count = @ + 1]]
                  ELSE /\ pc' = [pc EXCEPT ![c] =
                                   IF better /\ error_tmp = 0 THEN "los" ELSE "scan"]
                       /\ frame' = [frame EXCEPT ![c] =
                             [@ EXCEPT !.count = @ + 1,
                                       !.error_tmp = error_tmp,
                                       !.error = IF better THEN abs(error_tmp) ELSE @,
                                       !.m1_default = IF better THEN ToS32(m1) ELSE @,
                                       !.p_default = IF better THEN f.i ELSE @,
                                       !.i = IF better /\ error_tmp = 0 THEN @ ELSE @ + 1]]
    /\ UNCHANGED <<req, settings, prog, ip, data, ret, issued, regs, lock, cal, bus, faults>>

(***************************************************************************)
(* idt_cal_settings, lines 381-400: los and the copy into *settings.  A    *)
(* local the scan never assigned is read unassigned.                       *)
(***************************************************************************)
CalFinish(c) ==
    /\ pc[c] = "los"
    /\ LET f == frame[c]
       IN  \E m1 \in (IF f.m1_default = Uninit THEN UninitInts ELSE {f.m1_default}),
              p \in (IF f.p_default = Uninit THEN UninitInts ELSE {f.p_default}) :
             LET s == [ns1_qx |-> f.ns1, ns2_qx |-> f.ns2 % 65536,
                       n_qx |-> f.n_q2, nfrac_qx |-> f.nfrac_q2,
                       dsm_int |-> f.dsm_int % 65536, dsm_frac |-> f.dsm_frac,
                       m1_x |-> m1, pre_x |-> p,
                       los_x |-> los_of(f.fvco, req[c].freq_in)]
             IN  /\ settings' = [settings EXCEPT ![c] = s]
                 /\ prog' = [prog EXCEPT ![c] = Program(s)]
    /\ pc' = [pc EXCEPT ![c] = "program"]
    /\ ip' = [ip EXCEPT ![c] = 1]
    /\ UNCHANGED <<req, frame, data, ret, issued, regs, lock, cal, bus, faults>>

(***************************************************************************)
(* set_clock, lines 683-730: the next bus transfer.  regmap_read and       *)
(* regmap_write either succeed (status 0) or fail with an error code; a    *)
(* failed write leaves the register as it was, a failed read leaves data   *)
(* unassigned.                                                             *)
(***************************************************************************)
Statuses == IF faults > 0 THEN {0} \cup Errnos ELSE {0}

BusTransfer(c) ==
    /\ pc[c] = "program"
    /\ ip[c] <= Len(prog[c])
    /\ LET op == prog[c][ip[c]]
       IN  \E st \in Statuses :
             /\ faults' = IF st = 0 THEN faults ELSE faults - 1
             /\ IF op.kind = "read"
                THEN /\ \E d \in (IF st = 0 THEN {regs[op.addr]} ELSE UninitBytes) :
                          data' = [data EXCEPT ![c] = d]
                     /\ UNCHANGED <<ret, issued, regs, cal, bus>>
                ELSE LET val == IF op.kind = "modify"
                                THEN idt_modify_reg(data[c], op.val, op.mask)
                                ELSE op.val
                     IN  /\ regs' = IF st = 0 THEN [regs EXCEPT ![op.addr] = val]
                                    ELSE regs
                         /\ issued' = [issued EXCEPT ![c] = Append(@, <<op.addr, val, st>>)]
                         /\ ret' = IF op.last THEN [ret EXCEPT ![c] = st] ELSE ret
                         /\ cal' = IF op.addr = CAL_REG THEN [by |-> c, val |-> val]
                                   ELSE cal
                         /\ bus' = [by |-> c, addr |-> op.addr, val |-> val, cal |-> cal]
                         /\ data' = data
             /\ ip' = [ip EXCEPT ![c] = NextTransfer(@, st, Len(prog[c]))]
    /\ UNCHANGED <<pc, req, frame, settings, prog, lock>>

\* set_clock, line 732: return ret
Return(c) ==
    /\ pc[c] = "program"
    /\ ip[c] > Len(prog[c])
    /\ pc' = [pc EXCEPT ![c] = "done"]
    /\ UNCHANGED <<req, frame, settings, prog, ip, data, ret, issued, regs, lock, cal, bus, faults>>

(***************************************************************************)
(* Specifications.                                                         *)
(***************************************************************************)
InitCommon ==
    /\ frame = [c \in Callers |-> NoFrame]
    /\ data = [c \in Callers |-> Uninit]
    /\ ret = [c \in Callers |-> Uninit]
    /\ issued = [c \in Callers |-> <<>>]
    /\ regs = ProbedRegs
    /\ lock = 0
    /\ cal = [by |-> 0, val |-> 0]
    /\ bus = [by |-> 0, addr |-> CAL_REG, val |-> 0, cal |-> [by |-> 0, val |-> 5]]

\* one caller of set_clock on the probed device
Init ==
    /\ InitCommon
    /\ settings = [c \in Callers |-> NoSettings]
    /\ prog = [c \in Callers |-> <<>>]
    /\ ip = [c \in Callers |-> 0]
    /\ \E r \in Requests :
         req = [c \in Callers |-> [freq_in |-> r[1], freq_out |-> r[2]]]
    /\ pc = [c \in Callers |-> IF c = 1 THEN "idle" ELSE "absent"]
    /\ faults = MaxFaults

\* two callers of set_clock on the same struct idts
InitConc ==
    /\ InitCommon
    /\ settings = [c \in Callers |-> NoSettings]
    /\ prog = [c \in Callers |-> <<>>]
    /\ ip = [c \in Callers |-> 0]
    /\ \E r1 \in ConcRequests, r2 \in ConcRequests :
         req = [c \in Callers |-> IF c = 1 THEN [freq_in |-> r1[1], freq_out |-> r1[2]]
                                  ELSE [freq_in |-> r2[1], freq_out |-> r2[2]]]
    /\ pc = [c \in Callers |-> "idle"]
    /\ faults = 0

Next ==
    \E c \in Callers :
        \/ Call(c)
        \/ DivTableEnter(c)
        \/ DivTablePass(c)
        \/ CalSettings(c)
        \/ ScanPass(c)
        \/ CalFinish(c)
        \/ BusTransfer(c)
        \/ Return(c)

Spec == Init /\ [][Next]_vars

SpecConc == InitConc /\ [][Next]_vars

(***************************************************************************)
(* The register encoders on their own: set_clock's write sequence for      *)
(* settings drawn from the corners of every field's width.                 *)
(***************************************************************************)
Fields == {"pre_x", "m1_x", "dsm_int", "dsm_frac", "n_qx", "nfrac_qx", "los_x"}

\* register width of each field (lines 403-555, 607-631)
FieldWidth(f) ==
    CASE f = "pre_x" -> 21
      [] f = "m1_x" -> 24
      [] f = "dsm_int" -> 9
      [] f = "dsm_frac" -> 21
      [] f = "n_qx" -> 18
      [] f = "nfrac_qx" -> 28
      [] f = "los_x" -> 17

Kinds == 1..5

\* corner values of a w-bit field: 0, 1, all ones, top bit, 0101...
KindValue(w, k) ==
    CASE k = 1 -> 0
      [] k = 2 -> 1
      [] k = 3 -> 2^w - 1
      [] k = 4 -> 2^(w - 1)
      [] k = 5 -> 89478485 % 2^w

EncSettings ==
    { [ns1_qx |-> 0, ns2_qx |-> 0,
       pre_x |-> KindValue(FieldWidth("pre_x"), IF g = "pre_x" THEN a ELSE b),
       m1_x |-> KindValue(FieldWidth("m1_x"), IF g = "m1_x" THEN a ELSE b),
       dsm_int |-> KindValue(FieldWidth("dsm_int"), IF g = "dsm_int" THEN a ELSE b),
       dsm_frac |-> KindValue(FieldWidth("dsm_frac"), IF g = "dsm_frac" THEN a ELSE b),
       n_qx |-> KindValue(FieldWidth("n_qx"), IF g = "n_qx" THEN a ELSE b),
       nfrac_qx |-> KindValue(FieldWidth("nfrac_qx"), IF g = "nfrac_qx" THEN a ELSE b),
       los_x |-> KindValue(FieldWidth("los_x"), IF g = "los_x" THEN a ELSE b)]
      : g \in Fields, a \in Kinds, b \in Kinds }

\* set_clock at line 683 with the settings idt_cal_settings filled in
InitEnc ==
    /\ InitCommon
    /\ req = [c \in Callers |-> [freq_in |-> IDT_8T49N24X_XTAL_FREQ, freq_out |-> 0]]
    /\ \E s \in EncSettings :
         /\ settings = [c \in Callers |-> IF c = 1 THEN s ELSE NoSettings]
         /\ prog = [c \in Callers |-> IF c = 1 THEN Program(s) ELSE <<>>]
    /\ ip = [c \in Callers |-> IF c = 1 THEN 1 ELSE 0]
    /\ pc = [c \in Callers |-> IF c = 1 THEN "program" ELSE "absent"]
    /\ faults = 0

NextEnc == \E c \in Callers : BusTransfer(c) \/ Return(c)

SpecEnc == InitEnc /\ [][NextEnc]_vars

(***************************************************************************)
(* Vocabulary of the properties.                                           *)
(***************************************************************************)
ReferenceInRange(freq_in) ==
    /\ IDT_8T49N24X_FIN_MIN <= freq_in
    /\ freq_in <= IDT_8T49N24X_FIN_MAX

TargetInRange(freq_out) ==
    /\ IDT_8T49N24X_FOUT_MIN <= freq_out
    /\ freq_out <= IDT_8T49N24X_FOUT_MAX

ReqInRange(c) ==
    /\ ReferenceInRange(req[c].freq_in)
    /\ TargetInRange(req[c].freq_out)

Invoked(c) == pc[c] \notin {"absent", "idle"}

\* the VCO frequency target * divider, with no truncation
ExactVco(c) == WMulRaw(W(req[c].freq_out), W(frame[c].max_div))

CeilDiv(a, b) == (a + b - 1) \div b

\* addresses of the divider, DSM and loss-of-signal registers
FieldAddrs ==
    (11..22) \cup {37, 38} \cup (40..42) \cup (69..74) \cup (91..98) \cup (113..118)

AddrsOf(seq) == { seq[k][1] : k \in DOMAIN seq }

\* the register writes of a program, in order
WritesOf(p) == SelectSeq(p, LAMBDA op : op.kind # "read")

\* n consecutive registers from addr, most significant byte first
Decode(addr, n) ==
    CASE n = 2 -> regs[addr] * 256 + regs[addr + 1]
      [] n = 3 -> (regs[addr] * 256 + regs[addr + 1]) * 256 + regs[addr + 2]
      [] n = 4 -> ((regs[addr] * 256 + regs[addr + 1]) * 256 + regs[addr + 2]) * 256
                  + regs[addr + 3]

(***************************************************************************)
(* C1: whenever a request with reference and target both in range runs to  *)
(* completion, the chosen output divider puts the VCO, target * divider,   *)
(* inside [3 GHz, 4 GHz].                                                  *)
(***************************************************************************)
C1_VcoInRange ==
    \A c \in Callers :
        (pc[c] = "done" /\ ReqInRange(c)) =>
            /\ frame[c].max_div > 0
            /\ WLe(IDT_8T49N24X_FVCO_MIN, ExactVco(c))
            /\ WLe(ExactVco(c), IDT_8T49N24X_FVCO_MAX)
            /\ frame[c].fvco = ExactVco(c)

C1_Witness ==
    /\ pc[1] = "done"
    /\ req[1].freq_out = 16000000
    /\ frame[1].max_div = 250
    /\ Len(issued[1]) > 0

(***************************************************************************)
(* C2: a target frequency outside [8 kHz, 400 MHz] makes the request fail  *)
(* with a non-zero return and no register of the device is written.        *)
(***************************************************************************)
C2_TargetRejected ==
    \A c \in Callers :
        (Invoked(c) /\ ~TargetInRange(req[c].freq_out)) =>
            /\ issued[c] = <<>>
            /\ pc[c] = "done" => ret[c] # 0

(***************************************************************************)
(* C3: a target frequency of 0 is rejected at once: the request returns    *)
(* non-zero before any division by the target is evaluated and before any  *)
(* register is written.                                                    *)
(***************************************************************************)
C3_ZeroTargetRejected ==
    \A c \in Callers :
        (Invoked(c) /\ req[c].freq_out = 0) =>
            /\ pc[c] = "done"
            /\ ret[c] # 0
            /\ frame[c] = NoFrame
            /\ issued[c] = <<>>

(***************************************************************************)
(* C4: a reference frequency outside [8 kHz, 875 MHz] makes the request    *)
(* fail with a non-zero return before any computation; nothing is written. *)
(***************************************************************************)
C4_ReferenceRejected ==
    \A c \in Callers :
        (Invoked(c) /\ ~ReferenceInRange(req[c].freq_in)) =>
            /\ pc[c] = "done"
            /\ ret[c] # 0
            /\ frame[c] = NoFrame
            /\ issued[c] = <<>>

(***************************************************************************)
(* C5: the settings of a completed in-range request have m1_x < 2^24 and   *)
(* ceil(reference / 128000) <= pre_x <= 2^22.                              *)
(***************************************************************************)
C5_FeedbackBounds ==
    \A c \in Callers :
        (pc[c] = "done" /\ ReqInRange(c)) =>
            /\ settings[c].m1_x < IDT_8T49N24X_M_MAX
            /\ CeilDiv(req[c].freq_in, IDT_8T49N24X_FPD_MAX) <= settings[c].pre_x
            /\ settings[c].pre_x <= IDT_8T49N24X_P_MAX

(***************************************************************************)
(* C6: the first register write of a write sequence is 0x05 to 0x70, the   *)
(* last is 0x00 to 0x70, no other write goes to 0x70, and every divider,   *)
(* DSM and loss-of-signal register is written strictly between the two.    *)
(***************************************************************************)
C6_CalibrationBookends ==
    \A c \in Callers :
        LET w == issued[c]
            n == Len(w)
        IN  /\ n > 0 => (w[1][1] = CAL_REG /\ w[1][2] = 5)
            /\ \A k \in 2..n :
                 w[k][1] = CAL_REG =>
                     /\ w[k][2] = 0
                     /\ k = n
                     /\ ip[c] > Len(prog[c])
            /\ pc[c] = "done" /\ n > 0 =>
                 /\ n > 2
                 /\ w[n][1] = CAL_REG /\ w[n][2] = 0
                 /\ FieldAddrs \subseteq AddrsOf(SubSeq(w, 2, n - 1))

C6_Witness ==
    /\ pc[1] = "done"
    /\ Len(issued[1]) = 43
    /\ issued[1][1] = <<CAL_REG, 5, 0>>
    /\ issued[1][43] = <<CAL_REG, 0, 0>>

(***************************************************************************)
(* C7: concurrent set_clock calls on one device are serialized under the   *)
(* device lock: the writes of one call are never interleaved with those of *)
(* another, and no divider, DSM or loss-of-signal register is written      *)
(* while the latest write to 0x70 is another call's 0x00.                  *)
(***************************************************************************)
MidSequence(c) ==
    /\ pc[c] = "program"
    /\ Len(issued[c]) > 0
    /\ ip[c] <= Len(prog[c])

C7_Serialized ==
    /\ \A c \in Callers : \A d \in Callers \ {c} :
           ~(MidSequence(c) /\ MidSequence(d))
    /\ (bus.by # 0 /\ bus.addr \in FieldAddrs) =>
           ~(bus.cal.by # bus.by /\ bus.cal.val = 0)

(***************************************************************************)
(* C8: a write that fails never ends the sequence early: a request that    *)
(* passed validation issues all of its register writes, the closing write  *)
(* to 0x70 included, and returns the status of that final write, whatever  *)
(* the status of the earlier ones.                                         *)
(***************************************************************************)
C8_NoEarlyExit ==
    \A c \in Callers :
        (pc[c] = "done" /\ prog[c] # <<>>) =>
            LET w == issued[c]
                p == WritesOf(prog[c])
            IN  /\ Len(w) = Len(p)
                /\ \A k \in DOMAIN p : w[k][1] = p[k].addr
                /\ w[Len(w)][1] = CAL_REG
                /\ ret[c] = w[Len(w)][3]

C8_Witness ==
    /\ pc[1] = "done"
    /\ Len(issued[1]) = 43
    /\ \E k \in 1..42 : issued[1][k][3] # 0
    /\ ret[1] = 0

(***************************************************************************)
(* C9: every field of the settings of a completed in-range request fits    *)
(* its register: pre_x < 2^21, m1_x < 2^24, dsm_int < 2^9,                 *)
(* dsm_frac < 2^21, n_qx < 2^18, nfrac_qx < 2^28, los_x < 2^17.            *)
(***************************************************************************)
C9_FieldsFit ==
    \A c \in Callers :
        (pc[c] = "done" /\ ReqInRange(c)) =>
            \A f \in Fields :
                /\ 0 <= settings[c][f]
                /\ settings[c][f] < 2^FieldWidth(f)

(***************************************************************************)
(* C10: for a field value that fits its register width, reassembling the   *)
(* bytes the encoder wrote, most significant first, gives the value back.  *)
(***************************************************************************)
C10_RoundTrip ==
    \A c \in Callers :
        (pc[c] = "done" /\ prog[c] # <<>>
         /\ \A f \in Fields : 0 <= settings[c][f] /\ settings[c][f] < 2^FieldWidth(f)
         /\ \A k \in DOMAIN issued[c] : issued[c][k][3] = 0) =>
            LET s == settings[c]
            IN  /\ Decode(11, 3) = s.pre_x
                /\ Decode(14, 3) = s.pre_x
                /\ Decode(17, 3) = s.m1_x
                /\ Decode(20, 3) = s.m1_x
                /\ Decode(37, 2) = s.dsm_int
                /\ Decode(40, 3) = s.dsm_frac
                /\ Decode(69, 3) = s.n_qx
                /\ Decode(72, 3) = s.n_qx
                /\ Decode(91, 4) = s.nfrac_qx
                /\ Decode(95, 4) = s.nfrac_qx
                /\ Decode(113, 3) = s.los_x
                /\ Decode(116, 3) = s.los_x

C10_Witness ==
    /\ pc[1] = "done"
    /\ settings[1].pre_x = 2^21 - 1
    /\ settings[1].nfrac_qx = 2^27
    /\ regs[11] = 31 /\ regs[12] = 255 /\ regs[13] = 255
    /\ regs[91] = 8 /\ regs[94] = 0

(***************************************************************************)
(* Two calls of set_clock one after the other on the same device, as the   *)
(* clock framework makes them through idt_set_rate: the second call starts *)
(* when no other call is in progress.                                      *)
(***************************************************************************)
SeqRequests == { <<40000000, 148500000>>, <<40000000, 100000000>> }

InProgress(c) == pc[c] \in {"divtable", "divloop", "scan", "los", "program"}

CallAfter(c) ==
    /\ \A d \in Callers \ {c} : ~InProgress(d)
    /\ Call(c)

InitSeq ==
    /\ InitCommon
    /\ settings = [c \in Callers |-> NoSettings]
    /\ prog = [c \in Callers |-> <<>>]
    /\ ip = [c \in Callers |-> 0]
    /\ \E r \in SeqRequests :
         req = [c \in Callers |-> [freq_in |-> r[1], freq_out |-> r[2]]]
    /\ pc = [c \in Callers |-> "idle"]
    /\ faults = 0

NextSeq ==
    \E c \in Callers :
        \/ CallAfter(c)
        \/ DivTableEnter(c)
        \/ DivTablePass(c)
        \/ CalSettings(c)
        \/ ScanPass(c)
        \/ CalFinish(c)
        \/ BusTransfer(c)
        \/ Return(c)

SpecSeq == InitSeq /\ [][NextSeq]_vars

\* the <<address, value>> pairs a caller has written, in order
WrittenBytes(c) == [k \in DOMAIN issued[c] |-> <<issued[c][k][1], issued[c][k][2]>>]

(***************************************************************************)
(* C11: two calls of set_clock with the same in-range frequencies issue    *)
(* the same sequence of <<address, value>> register writes, whatever the   *)
(* device's registers held before each call.                               *)
(***************************************************************************)
C11_Purity ==
    \A c \in Callers : \A d \in Callers :
        (pc[c] = "done" /\ pc[d] = "done" /\ req[c] = req[d] /\ ReqInRange(c)) =>
            WrittenBytes(c) = WrittenBytes(d)

(***************************************************************************)
(* The calculation on its own: one call of set_clock, no bus transfer      *)
(* fails.  The rate idt_set_rate passes on is whatever the clock consumer  *)
(* asked for, so targets the range test should have refused are included.  *)
(***************************************************************************)
CalcRequests ==
    Requests \cup
    { <<40000000, 1100000000>>,    \* no divider puts the VCO in range
      <<40000000, 700000000>>,     \* the only divider is 5
      <<487932743, 100000000>> }   \* residual of 731 Hz at p = 3816

InitCalc ==
    /\ InitCommon
    /\ settings = [c \in Callers |-> NoSettings]
    /\ prog = [c \in Callers |-> <<>>]
    /\ ip = [c \in Callers |-> 0]
    /\ \E r \in CalcRequests :
         req = [c \in Callers |-> [freq_in |-> r[1], freq_out |-> r[2]]]
    /\ pc = [c \in Callers |-> IF c = 1 THEN "idle" ELSE "absent"]
    /\ faults = 0

SpecCalc == InitCalc /\ [][Next]_vars

\* requests whose feedback scan is followed pass by pass
ScanRequests ==
    { <<128002, 100000000>>,       \* the scan runs until m1 reaches M_MAX
      <<40000000, 148500000>>,
      <<875000000, 100000000>> }

InitScan ==
    /\ InitCommon
    /\ settings = [c \in Callers |-> NoSettings]
    /\ prog = [c \in Callers |-> <<>>]
    /\ ip = [c \in Callers |-> 0]
    /\ \E r \in ScanRequests :
         req = [c \in Callers |-> [freq_in |-> r[1], freq_out |-> r[2]]]
    /\ pc = [c \in Callers |-> IF c = 1 THEN "idle" ELSE "absent"]
    /\ faults = 0

SpecScan == InitScan /\ [][Next]_vars

(***************************************************************************)
(* C12: for reference 40 MHz and target 148.5 MHz the table builder        *)
(* computes outdiv_min = 21 and outdiv_max = 26, runs ns2 over 2 and 3,    *)
(* accepts exactly 24 (ns1 = 6, ns2 = 2) and 24 (ns1 = 4, ns2 = 3), and    *)
(* the selected divider is 24 with a VCO of 3,564,000,000 Hz.              *)
(***************************************************************************)
HdmiRequest == [freq_in |-> 40000000, freq_out |-> 148500000]

C12_HdmiScenario ==
    \A c \in Callers :
        req[c] = HdmiRequest =>
            LET f == frame[c]
            IN  /\ pc[c] \in {"divloop", "scan", "los", "program", "done"} =>
                     /\ f.outdiv_min = 21 /\ f.outdiv_max = 26
                     /\ f.ns2_max = 3 /\ f.ns2_tmp \in 2..4
                     /\ \A ns1 \in {4, 5, 6} : \A ns2 \in {2, 3} :
                          VcoAccepted(vco_tmp_of(HdmiRequest.freq_out,
                                                 outdiv_tmp_of(ns1, ns2)))
                              <=> (<<ns1, ns2>> \in {<<6, 2>>, <<4, 3>>})
                /\ pc[c] = "divloop" =>
                     f.divtbl = (CASE f.ns2_tmp = 2 -> <<>>
                                   [] f.ns2_tmp = 3 -> <<24>>
                                   [] OTHER -> <<24, 24>>)
                /\ pc[c] \in {"scan", "los", "program", "done"} =>
                     /\ f.divtbl = <<24, 24>>
                     /\ f.max_div = 24
                     /\ f.fvco = WMulRaw(W(3564), W(1000000))

C12_Witness ==
    /\ pc[1] = "done"
    /\ req[1] = HdmiRequest
    /\ frame[1].divtbl = <<24, 24>>
    /\ frame[1].max_div = 24
    /\ ret[1] = 0

(***************************************************************************)
(* C13: when idt_get_int_divtable accepts no candidate, the configuration  *)
(* fails with an error and no register is written; the calculation never   *)
(* goes on with a divider of 0 and a VCO of 0.                             *)
(***************************************************************************)
C13_EmptyTableFails ==
    \A c \in Callers :
        (pc[c] \in {"scan", "los", "program", "done"} /\ frame[c].divtbl = <<>>) =>
            /\ pc[c] = "done"
            /\ ret[c] # 0
            /\ issued[c] = <<>>

(***************************************************************************)
(* C14: within one call of set_clock the address ranges of the pre-divider *)
(* (input 0, 1), feedback multiplier (input 0, 1), DSM integer, DSM        *)
(* fraction, output-divider integer (output 2, 3), output-divider fraction *)
(* (output 2, 3) and loss-of-signal (input 0, 1) fields are pairwise       *)
(* disjoint, and disjoint from 0x0070, 0x000a and 0x0069.                  *)
(***************************************************************************)
\* the addresses each encoder call of set_clock writes, then the
\* calibration and mode registers
FieldGroups(s) ==
    << AddrsOf(idt_pre_div(s.pre_x, 0)), AddrsOf(idt_pre_div(s.pre_x, 1)),
       AddrsOf(idt_m1_feedback(s.m1_x, 0)), AddrsOf(idt_m1_feedback(s.m1_x, 1)),
       AddrsOf(idt_dsm_int(s.dsm_int)), AddrsOf(idt_dsm_frac(s.dsm_frac)),
       AddrsOf(idt_outdiv_int(s.n_qx, 2)), AddrsOf(idt_outdiv_int(s.n_qx, 3)),
       AddrsOf(idt_outdiv_frac(s.nfrac_qx, 2)), AddrsOf(idt_outdiv_frac(s.nfrac_qx, 3)),
       AddrsOf(idt_in_monitor_ctrl(s.los_x, 0)), AddrsOf(idt_in_monitor_ctrl(s.los_x, 1)),
       {CAL_REG}, {MODE_REG}, {SYN_REG} >>

C14_FieldsDisjoint ==
    \A c \in Callers :
        prog[c] # <<>> =>
            LET g == FieldGroups(settings[c])
                w == issued[c]
            IN  /\ \A i \in DOMAIN g : \A j \in DOMAIN g :
                     i # j => g[i] \cap g[j] = {}
                /\ UNION { g[i] : i \in 1..12 } = FieldAddrs
                /\ \A a \in FieldAddrs :
                     Cardinality({ k \in DOMAIN w : w[k][1] = a }) <= 1
                /\ pc[c] = "done" =>
                     \A a \in FieldAddrs :
                       Cardinality({ k \in DOMAIN w : w[k][1] = a }) = 1

C14_Witness ==
    /\ pc[1] = "done"
    /\ Len(issued[1]) = 43
    /\ Cardinality(AddrsOf(issued[1])) = 40
    /\ settings[1].nfrac_qx = 134217728

(***************************************************************************)
(* The error of a pre-divider p as the scan means to measure it, with no   *)
(* wrap-around: |fvco*p - m*freq_in| * 1000000 / (p*freq_in/1000), where   *)
(* m is the rounded quotient the scan computes for p.                      *)
(***************************************************************************)
Residual(fvco, p, m, freq_in) ==
    LET a == WMulRaw(fvco, W(p))
        b == WMulRaw(m, W(freq_in))
    IN  IF WLt(a, b) THEN WSubRaw(b, a) ELSE WSubRaw(a, b)

TrueError(fvco, p, freq_in) ==
    Div64(WMulRaw(Residual(fvco, p, scan_m1(fvco, p, freq_in), freq_in), W(1000000)),
          scan_temp1(p, freq_in))

\* the pre-dividers the scan has evaluated: those from p_min to i whose
\* multiplier is below M_MAX
Scanned(c) ==
    { p \in frame[c].p_min..frame[c].i :
        WLt(scan_m1(frame[c].fvco, p, req[c].freq_in), W(IDT_8T49N24X_M_MAX)) }

(***************************************************************************)
(* C15: the (pre_x, m1_x) pair the feedback scan returns has the least     *)
(* error |fvco*p - m*freq_in| / (p*freq_in), at the scan's integer         *)
(* resolution, among all p scanned, those whose m was rounded up included; *)
(* among equal errors the smallest p is returned.                          *)
(***************************************************************************)
C15_MinimumError ==
    \A c \in Callers :
        (pc[c] = "los" /\ ReqInRange(c) /\ frame[c].p_min >= 1) =>
            LET f == frame[c]
                fin == req[c].freq_in
                best == TrueError(f.fvco, f.p_default, fin)
            IN  /\ f.p_default \in Scanned(c)
                /\ W(f.m1_default) = scan_m1(f.fvco, f.p_default, fin)
                /\ \A p \in Scanned(c) :
                     LET e == TrueError(f.fvco, p, fin)
                     IN  WLt(best, e) \/ (best = e /\ f.p_default <= p)

\* the scan left the loop at a p within P_MAX whose multiplier is below
\* M_MAX: it took the break of line 373
StoppedEarly(c) ==
    /\ frame[c].i <= IDT_8T49N24X_P_MAX
    /\ WLt(scan_m1(frame[c].fvco, frame[c].i, req[c].freq_in), W(IDT_8T49N24X_M_MAX))

(***************************************************************************)
(* C16: the feedback scan stops before m reaches M_MAX or p passes P_MAX   *)
(* only at a p whose error is exactly zero: fvco * p = m * freq_in.  A     *)
(* small residual that is not zero never stops the scan.                   *)
(***************************************************************************)
C16_StopsOnlyOnExactZero ==
    \A c \in Callers :
        (pc[c] = "los" /\ ReqInRange(c) /\ frame[c].p_min >= 1 /\ StoppedEarly(c)) =>
            /\ frame[c].p_default = frame[c].i
            /\ WMulRaw(frame[c].fvco, W(frame[c].p_default))
                   = WMulRaw(W(frame[c].m1_default), W(req[c].freq_in))

(***************************************************************************)
(* The DSM split of a VCO frequency against a loop reference of ref Hz:    *)
(* <<floor(fvco / (2*ref)), round((fvco mod (2*ref)) * 2^21 / (2*ref))>>.  *)
(***************************************************************************)
DsmSplit(fvco, ref) ==
    LET two == WMulRaw(W(ref), W(2))
        qr == WDivMod(fvco, two)
        \* round(x / y) = floor((2x + y) / 2y)
        num == WAddRaw(WMulRaw(qr[2], W(2 * 2097152)), two)
        den == WMulRaw(two, W(2))
    IN  <<qr[1], WDivMod(num, den)[1]>>

DsmComputed(c) == pc[c] \in {"scan", "los", "program", "done"}

(***************************************************************************)
(* C17 as stated: for every in-range request the DSM split is              *)
(* dsm_int = floor(fvco / (2*reference_hz)) and                            *)
(* dsm_frac = round((fvco mod (2*reference_hz)) * 2^21 / (2*reference_hz)) *)
(* with the reference frequency passed to set_clock.                       *)
(***************************************************************************)
C17_DsmAgainstReference ==
    \A c \in Callers :
        (DsmComputed(c) /\ ReqInRange(c)) =>
            /\ W(frame[c].dsm_int) = DsmSplit(frame[c].fvco, req[c].freq_in)[1]
            /\ W(frame[c].dsm_frac) = DsmSplit(frame[c].fvco, req[c].freq_in)[2]

(***************************************************************************)
(* C17 amended: for every in-range request the DSM split is taken against  *)
(* the 40 MHz crystal, whatever reference is passed:                       *)
(* dsm_int = floor(fvco / (2*XTAL)) and                                    *)
(* dsm_frac = round((fvco mod (2*XTAL)) * 2^21 / (2*XTAL)); these are the  *)
(* values stored in the settings.                                          *)
(***************************************************************************)
C17_DsmAgainstCrystal ==
    \A c \in Callers :
        (DsmComputed(c) /\ ReqInRange(c)) =>
            LET split == DsmSplit(frame[c].fvco, IDT_8T49N24X_XTAL_FREQ)
            IN  /\ W(frame[c].dsm_int) = split[1]
                /\ W(frame[c].dsm_frac) = split[2]
                /\ pc[c] \in {"program", "done"} =>
                     /\ settings[c].dsm_int = frame[c].dsm_int
                     /\ settings[c].dsm_frac = frame[c].dsm_frac

C17_Witness ==
    /\ pc[1] = "done"
    /\ req[1].freq_in = 875000000
    /\ settings[1].dsm_int = 50
    /\ settings[1].dsm_frac = 0

C19_LossOfSignal ==
    \A c \in Callers :
        (pc[c] \in {"program", "done"} /\ req[c].freq_in > 0) =>
            LET eighth == ToInt(Div64(frame[c].fvco, W(8)))
                los == (eighth \div req[c].freq_in) + 3
            IN  settings[c].los_x = IF los > 6 THEN los ELSE 6

C19_Witness ==
    /\ pc[1] = "done"
    /\ req[1].freq_in = 875000000
    /\ frame[1].fvco = IDT_8T49N24X_FVCO_MAX
    /\ settings[1].los_x = 6

(***************************************************************************)
(* The stages of one call, read off the position of the caller: set_clock  *)
(* lines 668-678 validate, idt_get_int_divtable builds the table, lines    *)
(* 215-220 select the divider, lines 237-334 compute the output fraction   *)
(* and the DSM split, lines 343-379 solve the feedback, lines 382-385      *)
(* compute los, lines 683-730 encode.                                      *)
(***************************************************************************)
FeedbackSolved(c) == pc[c] \in {"los", "program", "done"}

ErrorTerminal(c) == pc[c] = "done" /\ ret[c] # 0 /\ issued[c] = <<>>

(***************************************************************************)
(* C20: one call goes through ValidateInput, BuildDividerTable,            *)
(* SelectMaxDivider, SolveFeedback, ComputeDsmAndOutputFraction,           *)
(* ComputeLos, Encode, Done in this order: the feedback is solved before   *)
(* the DSM split and output fraction are computed, and a constraint        *)
(* violation at a stage (a frequency out of range, an empty divider table) *)
(* takes the call to the Error terminal instead of the next stage.         *)
(***************************************************************************)
C20_StageOrder ==
    \A c \in Callers :
        /\ DsmComputed(c) => FeedbackSolved(c)
        /\ (Invoked(c) /\ ~ReqInRange(c)) => ErrorTerminal(c)
        /\ (DsmComputed(c) /\ frame[c].divtbl = <<>>) => ErrorTerminal(c)

(***************************************************************************)
(* C21: for every target in [8 kHz, 400 MHz] the candidates                *)
(* idt_get_int_divtable stores never exceed the 20 entries of divtbl: no   *)
(* store goes past divtbl[19].                                             *)
(***************************************************************************)
C21_TableFits ==
    \A c \in Callers :
        TargetInRange(req[c].freq_out) => Len(frame[c].divtbl) <= DIVTBL_SIZE

(***************************************************************************)
(* C22: for every reference in [8 kHz, 875 MHz] the feedback scan starts   *)
(* at a pre-divider of at least 1 and the error denominator                *)
(* p * freq_in / 1000 is not zero at any scanned p: no division by zero.   *)
(***************************************************************************)
C22_NoDivisionByZero ==
    \A c \in Callers :
        (DsmComputed(c) /\ ReferenceInRange(req[c].freq_in)) =>
            /\ frame[c].p_min >= 1
            /\ pc[c] = "scan" => scan_temp1(frame[c].i, req[c].freq_in) # WZero

(***************************************************************************)
(* C23: for every in-range target the selected total ratio is the largest  *)
(* element of {4, 5, 6} \cup {2 * ns1 * ns2 : ns1 \in {4, 5, 6}, ns2 >= 1} *)
(* whose exact product with the target lies in [FVCO_MIN, FVCO_MAX], and   *)
(* the table holds exactly the valid ratios: the ns2 bounds and the 32-bit *)
(* product exclude no valid ratio and admit no invalid one.                *)
(***************************************************************************)
IsRatio(d) == d \in {4, 5, 6} \/ \E ns1 \in {4, 5, 6} : d >= 2 * ns1 /\ d % (2 * ns1) = 0

\* the product is taken exactly, without the 32-bit truncation of the code
ValidRatios(freq_out) ==
    LET top == ToInt(WDivMod(IDT_8T49N24X_FVCO_MAX, W(freq_out))[1])
    IN  {d \in 1..top : /\ IsRatio(d)
                        /\ WLe(IDT_8T49N24X_FVCO_MIN, WMulRaw(W(freq_out), W(d)))}

Largest(S) == CHOOSE d \in S : \A e \in S : e <= d

TableStored(c) == pc[c] \in {"scan", "los", "program", "done"}

C23_LargestValidRatio ==
    \A c \in Callers :
        (TableStored(c) /\ TargetInRange(req[c].freq_out)) =>
            LET valid == ValidRatios(req[c].freq_out)
                f     == frame[c]
            IN  /\ {f.divtbl[k] : k \in 1..Len(f.divtbl)} = valid
                /\ valid # {}
                /\ f.max_div = Largest(valid)

C23_Witness ==
    /\ pc[1] = "done"
    /\ req[1].freq_out = 100000000
    /\ frame[1].divtbl = <<30, 36, 32, 40, 40>>
    /\ frame[1].max_div = 40

(***************************************************************************)
(* C24: whenever the divider table is non-empty, ns1 is assigned by one of *)
(* the three tests and the stored pair (ns1_qx, ns2_qx) decomposes the     *)
(* selected ratio exactly: with ns1_ratio decoded from ns1_qx, max_div is  *)
(* ns1_ratio when ns2_qx is 0 and ns1_ratio * ns2_qx * 2 otherwise.        *)
(***************************************************************************)
Ns1Decoded(ns1_qx) ==
    CASE ns1_qx = 0 -> 5
      [] ns1_qx = 1 -> 6
      [] ns1_qx = 2 -> 4
      [] OTHER      -> 0

SettingsStored(c) == pc[c] \in {"program", "done"}

C24_RatioDecomposed ==
    \A c \in Callers :
        (SettingsStored(c) /\ frame[c].divtbl # <<>>) =>
            LET s     == settings[c]
                ratio == Ns1Decoded(s.ns1_qx)
            IN  /\ ns1_of(frame[c].max_div) # Uninit
                /\ s.ns1_qx = frame[c].ns1
                /\ ratio \in {4, 5, 6}
                /\ frame[c].max_div = IF s.ns2_qx = 0 THEN ratio
                                      ELSE ratio * s.ns2_qx * 2

C24_Witness ==
    /\ pc[1] = "done"
    /\ req[1].freq_out = 16000000
    /\ frame[1].max_div = 250
    /\ settings[1].ns1_qx = 0
    /\ settings[1].ns2_qx = 25

(***************************************************************************)
(* C25: for every in-range target the NS2-bypass case is never taken: the  *)
(* enumeration starts at ns2 >= 1, the selected ratio is even and at least *)
(* 8, so ns2_qx >= 1, n_qx is half the ratio and nfrac_qx is 0.            *)
(***************************************************************************)
C25_NoBypassInRange ==
    \A c \in Callers :
        /\ (TableStored(c) /\ TargetInRange(req[c].freq_out)) =>
              /\ ~BypassCase(frame[c].outdiv_min, frame[c].outdiv_max)
              /\ frame[c].max_div % 2 = 0
              /\ frame[c].max_div >= 8
        /\ (SettingsStored(c) /\ TargetInRange(req[c].freq_out)) =>
              /\ settings[c].ns2_qx >= 1
              /\ settings[c].n_qx * 2 = frame[c].max_div
              /\ settings[c].nfrac_qx = 0

C25_Witness ==
    /\ pc[1] = "done"
    /\ req[1].freq_out = 400000000
    /\ frame[1].outdiv_min = 8
    /\ frame[1].max_div = 10
    /\ settings[1].ns2_qx = 1
    /\ settings[1].n_qx = 5

(***************************************************************************)
(* C26: for every in-range request set_clock runs to its end: the ns2      *)
(* enumeration finishes, and the feedback scan makes at most               *)
(* P_MAX - p_min + 1 passes and stops at the first p with zero error, at   *)
(* the first p with m1 >= M_MAX, or after p = P_MAX; no loop is cut short  *)
(* by a fault of the calculation itself.                                   *)
(***************************************************************************)
ScanLeft(c) == DsmComputed(c) /\ pc[c] # "scan" /\ pc[c] # "oops"

C26_LoopsTerminate ==
    \A c \in Callers :
        ReqInRange(c) =>
            LET f       == frame[c]
                freq_in == req[c].freq_in
            IN  /\ pc[c] # "oops"
                /\ pc[c] = "divloop" => f.ns2_tmp <= f.ns2_max + 1
                /\ DsmComputed(c) =>
                      f.count <= IDT_8T49N24X_P_MAX - f.p_min + 1
                /\ ScanLeft(c) =>
                      /\ \/ f.i > IDT_8T49N24X_P_MAX
                         \/ ~WLt(scan_m1(f.fvco, f.i, freq_in), W(IDT_8T49N24X_M_MAX))
                         \/ f.error_tmp = 0 /\ f.p_default = f.i
                      /\ \A p \in f.p_min..(f.i - 1) :
                            /\ WLt(scan_m1(f.fvco, p, freq_in), W(IDT_8T49N24X_M_MAX))
                            /\ scan_error_tmp(f.fvco, p, scan_m1(f.fvco, p, freq_in),
                                              freq_in) # 0

(***************************************************************************)
(* C27: a read-modify-write update changes only the masked bits: the byte  *)
(* it stores has the bits of val under the mask and, outside the mask, the *)
(* bits of the value read from the device just before, and no other        *)
(* register changes.  After a set_clock whose transfers all succeeded,     *)
(* register 0x000a has the bits under mask 0x33 equal to 0x31 and register *)
(* 0x0069 has bit 3 set, every other bit of the two being as it was.       *)
(***************************************************************************)
Masked(byte, mask) == [b \in 0..7 |-> IF Bit(mask, b) = 1 THEN Bit(byte, b) ELSE 0]

Unmasked(byte, mask) == [b \in 0..7 |-> IF Bit(mask, b) = 1 THEN 0 ELSE Bit(byte, b)]

\* the step of caller c is the write of idt_modify_reg and the device took it
ModifyStored(c) ==
    /\ pc[c] = "program"
    /\ ip[c] <= Len(prog[c])
    /\ prog[c][ip[c]].kind = "modify"
    /\ Len(issued'[c]) = Len(issued[c]) + 1
    /\ issued'[c][Len(issued'[c])][3] = 0

ConfigStart == 8

ConfigEntry(Index) == WriteOp(Index, IDT_8T49N24x_Config_JA[Index + 1], FALSE)

\* the test of the loop body, line 810
ConfigWritten(op) == op.addr # CAL_REG

ConfigWrites ==
    LET n == Len(IDT_8T49N24x_Config_JA) - ConfigStart
    IN  SelectSeq([k \in 1..n |-> ConfigEntry(ConfigStart + k - 1)], ConfigWritten)

\* mutant: address 0x70 is not skipped
idt_init_noskip ==
    LET n == Len(IDT_8T49N24x_Config_JA) - ConfigStart
    IN  <<WriteOp(CAL_REG, 5, FALSE)>>
            \o [k \in 1..n |-> ConfigEntry(ConfigStart + k - 1)]
            \o <<WriteOp(CAL_REG, 0, FALSE)>>

idt_init ==
    <<WriteOp(CAL_REG, 5, FALSE)>> \o ConfigWrites \o <<WriteOp(CAL_REG, 0, FALSE)>>

\* idt_probe, line 869: idt_init runs once on a device whose register
\* content the driver has not set; at most one of its writes fails
InitProbe ==
    /\ frame = [c \in Callers |-> NoFrame]
    /\ data = [c \in Callers |-> Uninit]
    /\ ret = [c \in Callers |-> Uninit]
    /\ issued = [c \in Callers |-> <<>>]
    /\ \E v \in UninitBytes : regs = [a \in RegAddrs |-> v]
    /\ lock = 0
    /\ cal = [by |-> 0, val |-> 0]
    /\ bus = [by |-> 0, addr |-> CAL_REG, val |-> 0, cal |-> [by |-> 0, val |-> 0]]
    /\ req = [c \in Callers |-> [freq_in |-> IDT_8T49N24X_XTAL_FREQ, freq_out |-> 0]]
    /\ settings = [c \in Callers |-> NoSettings]
    /\ prog = [c \in Callers |-> IF c = 1 THEN idt_init ELSE <<>>]
    /\ ip = [c \in Callers |-> IF c = 1 THEN 1 ELSE 0]
    /\ pc = [c \in Callers |-> IF c = 1 THEN "program" ELSE "absent"]
    /\ faults \in {0, 1}

SpecInit == InitProbe /\ [][NextEnc]_vars

(***************************************************************************)
(* C28: idt_init writes 0x05 to register 0x70 first and 0x00 to register   *)
(* 0x70 last; in between it writes Config_JA[a] to every address a from 8  *)
(* to the last index of the table exactly once, in ascending order, with   *)
(* 0x70 skipped, and it never writes to addresses 0..7.                    *)
(***************************************************************************)
LastIndex == Len(IDT_8T49N24x_Config_JA) - 1

\* the address the table write after address a goes to
Following(a) == IF a + 1 = 112 THEN a + 2 ELSE a + 1

C28_InitSequence ==
    LET w == issued[1]
        n == Len(w)
        closing(k) == k > 2 /\ w[k - 1][1] = LastIndex
    IN  /\ n >= 1 => w[1][1] = 112 /\ w[1][2] = 5
        /\ n >= 2 => w[2][1] = 8
        /\ \A k \in 2..n :
              IF closing(k)
              THEN w[k][1] = 112 /\ w[k][2] = 0 /\ k = n
              ELSE /\ w[k][1] \in 8..LastIndex
                   /\ w[k][1] # 112
                   /\ w[k][2] = IDT_8T49N24x_Config_JA[w[k][1] + 1]
                   /\ k > 2 => w[k][1] = Following(w[k - 1][1])
        /\ pc[1] = "done" => n >= 3 /\ closing(n)

C28_Witness ==
    /\ pc[1] = "done"
    /\ Len(issued[1]) = 125
    /\ issued[1][2] = <<8, 3, 0>>
    /\ issued[1][124] = <<131, 0, 0>>
    /\ regs[112] = 0
    /\ regs[111] = 3 /\ regs[113] = 0 /\ regs[7] = 255

(***************************************************************************)
(* idt_set_rate, lines 755-763: set_clock is called with the crystal       *)
(* frequency as reference, its return value is dropped and 0 is returned.  *)
(***************************************************************************)
idt_set_rate(set_clock_ret) == 0

\* the call came through idt_set_rate and set_clock has returned
SetRateReturned(c) ==
    pc[c] = "done" /\ req[c].freq_in = IDT_8T49N24X_XTAL_FREQ

(***************************************************************************)
(* C29: whenever set_clock returns a non-zero value, idt_set_rate returns  *)
(* a non-zero value as well, so that clk_set_rate in idt_probe sees the    *)
(* failure.                                                                *)
(***************************************************************************)
C29_FailurePropagates ==
    \A c \in Callers :
        (SetRateReturned(c) /\ ret[c] # 0) => idt_set_rate(ret[c]) # 0

(***************************************************************************)
(* ti_tmds1204_tx.c: the TI TMDS1204 retimer.  ti_tmds1204tx_regs is one   *)
(* flat table of {dev_type, addr, val}; the dev_type of a group is the     *)
(* index of its first entry (enum of lines 36-58).  The entries are those  *)
(* of a build with neither XPS_BOARD_ZCU102 nor XPS_BOARD_ZCU106 defined;  *)
(* the board macros change values only, never the number of entries.       *)
(***************************************************************************)
TX_TI_R1_INIT == 0
TX_TI_TMDS_14_L_R1 == TX_TI_R1_INIT + 7
TX_TI_TMDS_14_H_R1 == TX_TI_TMDS_14_L_R1 + 13
TX_TI_TMDS_20_R1 == TX_TI_TMDS_14_H_R1 + 13
TX_TI_FRL_3G_R1 == TX_TI_TMDS_20_R1 + 13
TX_TI_FRL_6G_3_R1 == TX_TI_FRL_3G_R1 + 13
TX_TI_FRL_6G_4_R1 == TX_TI_FRL_6G_3_R1 + 13
TX_TI_FRL_8G_R1 == TX_TI_FRL_6G_4_R1 + 13
TX_TI_FRL_10G_R1 == TX_TI_FRL_8G_R1 + 13
TX_TI_FRL_12G_R1 == TX_TI_FRL_10G_R1 + 13
RX_TI_R1_INIT == TX_TI_FRL_12G_R1 + 13
RX_TI_TMDS_14_L_R1 == RX_TI_R1_INIT + 9
RX_TI_TMDS_14_H_R1 == RX_TI_TMDS_14_L_R1 + 14 - 2
RX_TI_TMDS_20_R1 == RX_TI_TMDS_14_H_R1 + 14 - 2
RX_TI_FRL_3G_R1 == RX_TI_TMDS_20_R1 + 14 - 2
RX_TI_FRL_6G_3_R1 == RX_TI_FRL_3G_R1 + 14 - 2
RX_TI_FRL_6G_4_R1 == RX_TI_FRL_6G_3_R1 + 14 - 2
RX_TI_FRL_8G_R1 == RX_TI_FRL_6G_4_R1 + 14 - 2
RX_TI_FRL_10G_R1 == RX_TI_FRL_8G_R1 + 14 - 2
RX_TI_FRL_12G_R1 == RX_TI_FRL_10G_R1 + 14 - 2

ti_tmds1204tx_regs ==
    << <<TX_TI_R1_INIT, 10, 142>>, <<TX_TI_R1_INIT, 11, 67>>, <<TX_TI_R1_INIT, 12, 112>>,
       <<TX_TI_R1_INIT, 13, 34>>, <<TX_TI_R1_INIT, 14, 151>>, <<TX_TI_R1_INIT, 17, 0>>,
       <<TX_TI_R1_INIT, 9, 0>>, <<TX_TI_TMDS_14_L_R1, 17, 0>>, <<TX_TI_TMDS_14_L_R1, 13, 34>>,
       <<TX_TI_TMDS_14_L_R1, 18, 3>>, <<TX_TI_TMDS_14_L_R1, 19, 0>>, <<TX_TI_TMDS_14_L_R1, 20, 3>>,
       <<TX_TI_TMDS_14_L_R1, 21, 5>>, <<TX_TI_TMDS_14_L_R1, 22, 3>>, <<TX_TI_TMDS_14_L_R1, 23, 5>>,
       <<TX_TI_TMDS_14_L_R1, 24, 3>>, <<TX_TI_TMDS_14_L_R1, 25, 5>>, <<TX_TI_TMDS_14_L_R1, 32, 0>>,
       <<TX_TI_TMDS_14_L_R1, 49, 0>>, <<TX_TI_TMDS_14_L_R1, 17, 15>>, <<TX_TI_TMDS_14_H_R1, 17, 0>>,
       <<TX_TI_TMDS_14_H_R1, 13, 34>>, <<TX_TI_TMDS_14_H_R1, 18, 3>>, <<TX_TI_TMDS_14_H_R1, 19, 0>>,
       <<TX_TI_TMDS_14_H_R1, 20, 3>>, <<TX_TI_TMDS_14_H_R1, 21, 5>>, <<TX_TI_TMDS_14_H_R1, 22, 3>>,
       <<TX_TI_TMDS_14_H_R1, 23, 5>>, <<TX_TI_TMDS_14_H_R1, 24, 3>>, <<TX_TI_TMDS_14_H_R1, 25, 5>>,
       <<TX_TI_TMDS_14_H_R1, 32, 0>>, <<TX_TI_TMDS_14_H_R1, 49, 0>>, <<TX_TI_TMDS_14_H_R1, 17, 15>>,
       <<TX_TI_TMDS_20_R1, 17, 0>>, <<TX_TI_TMDS_20_R1, 13, 34>>, <<TX_TI_TMDS_20_R1, 18, 3>>,
       <<TX_TI_TMDS_20_R1, 19, 0>>, <<TX_TI_TMDS_20_R1, 20, 3>>, <<TX_TI_TMDS_20_R1, 21, 5>>,
       <<TX_TI_TMDS_20_R1, 22, 3>>, <<TX_TI_TMDS_20_R1, 23, 5>>, <<TX_TI_TMDS_20_R1, 24, 3>>,
       <<TX_TI_TMDS_20_R1, 25, 5>>, <<TX_TI_TMDS_20_R1, 32, 2>>, <<TX_TI_TMDS_20_R1, 49, 0>>,
       <<TX_TI_TMDS_20_R1, 17, 15>>, <<TX_TI_FRL_3G_R1, 17, 0>>, <<TX_TI_FRL_3G_R1, 13, 34>>,
       <<TX_TI_FRL_3G_R1, 18, 3>>, <<TX_TI_FRL_3G_R1, 19, 0>>, <<TX_TI_FRL_3G_R1, 20, 3>>,
       <<TX_TI_FRL_3G_R1, 21, 5>>, <<TX_TI_FRL_3G_R1, 22, 3>>, <<TX_TI_FRL_3G_R1, 23, 5>>,
       <<TX_TI_FRL_3G_R1, 24, 3>>, <<TX_TI_FRL_3G_R1, 25, 5>>, <<TX_TI_FRL_3G_R1, 32, 0>>,
       <<TX_TI_FRL_3G_R1, 49, 1>>, <<TX_TI_FRL_3G_R1, 17, 15>>, <<TX_TI_FRL_6G_3_R1, 17, 0>>,
       <<TX_TI_FRL_6G_3_R1, 13, 34>>, <<TX_TI_FRL_6G_3_R1, 18, 3>>, <<TX_TI_FRL_6G_3_R1, 19, 0>>,
       <<TX_TI_FRL_6G_3_R1, 20, 3>>, <<TX_TI_FRL_6G_3_R1, 21, 5>>, <<TX_TI_FRL_6G_3_R1, 22, 3>>,
       <<TX_TI_FRL_6G_3_R1, 23, 5>>, <<TX_TI_FRL_6G_3_R1, 24, 3>>, <<TX_TI_FRL_6G_3_R1, 25, 5>>,
       <<TX_TI_FRL_6G_3_R1, 32, 0>>, <<TX_TI_FRL_6G_3_R1, 49, 2>>, <<TX_TI_FRL_6G_3_R1, 17, 15>>,
       <<TX_TI_FRL_6G_4_R1, 17, 0>>, <<TX_TI_FRL_6G_4_R1, 13, 34>>, <<TX_TI_FRL_6G_4_R1, 18, 3>>,
       <<TX_TI_FRL_6G_4_R1, 19, 5>>, <<TX_TI_FRL_6G_4_R1, 20, 3>>, <<TX_TI_FRL_6G_4_R1, 21, 5>>,
       <<TX_TI_FRL_6G_4_R1, 22, 3>>, <<TX_TI_FRL_6G_4_R1, 23, 5>>, <<TX_TI_FRL_6G_4_R1, 24, 3>>,
       <<TX_TI_FRL_6G_4_R1, 25, 5>>, <<TX_TI_FRL_6G_4_R1, 32, 0>>, <<TX_TI_FRL_6G_4_R1, 49, 3>>,
       <<TX_TI_FRL_6G_4_R1, 17, 15>>, <<TX_TI_FRL_8G_R1, 17, 0>>, <<TX_TI_FRL_8G_R1, 13, 34>>,
       <<TX_TI_FRL_8G_R1, 18, 3>>, <<TX_TI_FRL_8G_R1, 19, 5>>, <<TX_TI_FRL_8G_R1, 20, 3>>,
       <<TX_TI_FRL_8G_R1, 21, 5>>, <<TX_TI_FRL_8G_R1, 22, 3>>, <<TX_TI_FRL_8G_R1, 23, 5>>,
       <<TX_TI_FRL_8G_R1, 24, 3>>, <<TX_TI_FRL_8G_R1, 25, 5>>, <<TX_TI_FRL_8G_R1, 32, 0>>,
       <<TX_TI_FRL_8G_R1, 49, 4>>, <<TX_TI_FRL_8G_R1, 17, 15>>, <<TX_TI_FRL_10G_R1, 17, 0>>,
       <<TX_TI_FRL_10G_R1, 13, 34>>, <<TX_TI_FRL_10G_R1, 18, 3>>, <<TX_TI_FRL_10G_R1, 19, 5>>,
       <<TX_TI_FRL_10G_R1, 20, 3>>, <<TX_TI_FRL_10G_R1, 21, 5>>, <<TX_TI_FRL_10G_R1, 22, 3>>,
       <<TX_TI_FRL_10G_R1, 23, 5>>, <<TX_TI_FRL_10G_R1, 24, 3>>, <<TX_TI_FRL_10G_R1, 25, 5>>,
       <<TX_TI_FRL_10G_R1, 32, 0>>, <<TX_TI_FRL_10G_R1, 49, 5>>, <<TX_TI_FRL_10G_R1, 17, 15>>,
       <<TX_TI_FRL_12G_R1, 17, 0>>, <<TX_TI_FRL_12G_R1, 13, 34>>, <<TX_TI_FRL_12G_R1, 18, 3>>,
       <<TX_TI_FRL_12G_R1, 19, 5>>, <<TX_TI_FRL_12G_R1, 20, 3>>, <<TX_TI_FRL_12G_R1, 21, 5>>,
       <<TX_TI_FRL_12G_R1, 22, 3>>, <<TX_TI_FRL_12G_R1, 23, 5>>, <<TX_TI_FRL_12G_R1, 24, 3>>,
       <<TX_TI_FRL_12G_R1, 25, 5>>, <<TX_TI_FRL_12G_R1, 32, 0>>, <<TX_TI_FRL_12G_R1, 49, 6>>,
       <<TX_TI_FRL_12G_R1, 17, 15>>, <<RX_TI_R1_INIT, 10, 78>>, <<RX_TI_R1_INIT, 11, 67>>,
       <<RX_TI_R1_INIT, 12, 112>>, <<RX_TI_R1_INIT, 13, 227>>, <<RX_TI_R1_INIT, 14, 151>>,
       <<RX_TI_R1_INIT, 30, 0>>, <<RX_TI_R1_INIT, 17, 15>>, <<RX_TI_R1_INIT, 9, 0>>,
       <<RX_TI_R1_INIT, 248, 3>>, <<RX_TI_TMDS_14_L_R1, 10, 78>>, <<RX_TI_TMDS_14_L_R1, 13, 227>>,
       <<RX_TI_TMDS_14_L_R1, 18, 3>>, <<RX_TI_TMDS_14_L_R1, 19, 0>>, <<RX_TI_TMDS_14_L_R1, 20, 3>>,
       <<RX_TI_TMDS_14_L_R1, 21, 5>>, <<RX_TI_TMDS_14_L_R1, 22, 3>>, <<RX_TI_TMDS_14_L_R1, 23, 5>>,
       <<RX_TI_TMDS_14_L_R1, 24, 3>>, <<RX_TI_TMDS_14_L_R1, 25, 5>>, <<RX_TI_TMDS_14_L_R1, 32, 0>>,
       <<RX_TI_TMDS_14_L_R1, 49, 0>>, <<RX_TI_TMDS_14_H_R1, 10, 78>>, <<RX_TI_TMDS_14_H_R1, 13, 227>>,
       <<RX_TI_TMDS_14_H_R1, 18, 3>>, <<RX_TI_TMDS_14_H_R1, 19, 0>>, <<RX_TI_TMDS_14_H_R1, 20, 3>>,
       <<RX_TI_TMDS_14_H_R1, 21, 5>>, <<RX_TI_TMDS_14_H_R1, 22, 3>>, <<RX_TI_TMDS_14_H_R1, 23, 5>>,
       <<RX_TI_TMDS_14_H_R1, 24, 3>>, <<RX_TI_TMDS_14_H_R1, 25, 5>>, <<RX_TI_TMDS_14_H_R1, 32, 0>>,
       <<RX_TI_TMDS_14_H_R1, 49, 0>>, <<RX_TI_TMDS_20_R1, 10, 78>>, <<RX_TI_TMDS_20_R1, 13, 227>>,
       <<RX_TI_TMDS_20_R1, 18, 3>>, <<RX_TI_TMDS_20_R1, 19, 0>>, <<RX_TI_TMDS_20_R1, 20, 3>>,
       <<RX_TI_TMDS_20_R1, 21, 5>>, <<RX_TI_TMDS_20_R1, 22, 3>>, <<RX_TI_TMDS_20_R1, 23, 5>>,
       <<RX_TI_TMDS_20_R1, 24, 3>>, <<RX_TI_TMDS_20_R1, 25, 5>>, <<RX_TI_TMDS_20_R1, 32, 2>>,
       <<RX_TI_TMDS_20_R1, 49, 0>>, <<RX_TI_FRL_3G_R1, 10, 14>>, <<RX_TI_FRL_3G_R1, 13, 227>>,
       <<RX_TI_FRL_3G_R1, 18, 3>>, <<RX_TI_FRL_3G_R1, 19, 0>>, <<RX_TI_FRL_3G_R1, 20, 3>>,
       <<RX_TI_FRL_3G_R1, 21, 5>>, <<RX_TI_FRL_3G_R1, 22, 3>>, <<RX_TI_FRL_3G_R1, 23, 5>>,
       <<RX_TI_FRL_3G_R1, 24, 3>>, <<RX_TI_FRL_3G_R1, 25, 5>>, <<RX_TI_FRL_3G_R1, 32, 0>>,
       <<RX_TI_FRL_3G_R1, 49, 1>>, <<RX_TI_FRL_6G_3_R1, 10, 14>>, <<RX_TI_FRL_6G_3_R1, 13, 227>>,
       <<RX_TI_FRL_6G_3_R1, 18, 3>>, <<RX_TI_FRL_6G_3_R1, 19, 0>>, <<RX_TI_FRL_6G_3_R1, 20, 3>>,
       <<RX_TI_FRL_6G_3_R1, 21, 5>>, <<RX_TI_FRL_6G_3_R1, 22, 3>>, <<RX_TI_FRL_6G_3_R1, 23, 5>>,
       <<RX_TI_FRL_6G_3_R1, 24, 3>>, <<RX_TI_FRL_6G_3_R1, 25, 5>>, <<RX_TI_FRL_6G_3_R1, 32, 0>>,
       <<RX_TI_FRL_6G_3_R1, 49, 2>>, <<RX_TI_FRL_6G_4_R1, 10, 14>>, <<RX_TI_FRL_6G_4_R1, 13, 227>>,
       <<RX_TI_FRL_6G_4_R1, 18, 3>>, <<RX_TI_FRL_6G_4_R1, 19, 5>>, <<RX_TI_FRL_6G_4_R1, 20, 3>>,
       <<RX_TI_FRL_6G_4_R1, 21, 5>>, <<RX_TI_FRL_6G_4_R1, 22, 3>>, <<RX_TI_FRL_6G_4_R1, 23, 5>>,
       <<RX_TI_FRL_6G_4_R1, 24, 3>>, <<RX_TI_FRL_6G_4_R1, 25, 5>>, <<RX_TI_FRL_6G_4_R1, 32, 0>>,
       <<RX_TI_FRL_6G_4_R1, 49, 3>>, <<RX_TI_FRL_8G_R1, 10, 14>>, <<RX_TI_FRL_8G_R1, 13, 243>>,
       <<RX_TI_FRL_8G_R1, 18, 1>>, <<RX_TI_FRL_8G_R1, 19, 0>>, <<RX_TI_FRL_8G_R1, 20, 3>>,
       <<RX_TI_FRL_8G_R1, 21, 5>>, <<RX_TI_FRL_8G_R1, 22, 1>>, <<RX_TI_FRL_8G_R1, 23, 0>>,
       <<RX_TI_FRL_8G_R1, 24, 1>>, <<RX_TI_FRL_8G_R1, 25, 0>>, <<RX_TI_FRL_8G_R1, 32, 0>>,
       <<RX_TI_FRL_8G_R1, 49, 4>>, <<RX_TI_FRL_10G_R1, 10, 14>>, <<RX_TI_FRL_10G_R1, 13, 243>>,
       <<RX_TI_FRL_10G_R1, 18, 2>>, <<RX_TI_FRL_10G_R1, 19, 0>>, <<RX_TI_FRL_10G_R1, 20, 1>>,
       <<RX_TI_FRL_10G_R1, 21, 0>>, <<RX_TI_FRL_10G_R1, 22, 0>>, <<RX_TI_FRL_10G_R1, 23, 1>>,
       <<RX_TI_FRL_10G_R1, 24, 2>>, <<RX_TI_FRL_10G_R1, 25, 0>>, <<RX_TI_FRL_10G_R1, 32, 0>>,
       <<RX_TI_FRL_10G_R1, 49, 5>>, <<RX_TI_FRL_12G_R1, 10, 14>>, <<RX_TI_FRL_12G_R1, 13, 243>>,
       <<RX_TI_FRL_12G_R1, 18, 1>>, <<RX_TI_FRL_12G_R1, 19, 1>>, <<RX_TI_FRL_12G_R1, 20, 1>>,
       <<RX_TI_FRL_12G_R1, 21, 1>>, <<RX_TI_FRL_12G_R1, 22, 1>>, <<RX_TI_FRL_12G_R1, 23, 1>>,
       <<RX_TI_FRL_12G_R1, 24, 1>>, <<RX_TI_FRL_12G_R1, 25, 1>>, <<RX_TI_FRL_12G_R1, 32, 0>>,
       <<RX_TI_FRL_12G_R1, 49, 6>> >>

\* u16 dev_type = 0xffff, line 424
DevTypeDefault == 65535

\* linerate_mbps = (u32)((u64)linerate / 1000000)
linerate_mbps_of(linerate) == ToInt(U32(Div64(linerate, W(1000000))))

\* lines 432-485: the group the arguments select; revision is always 1
dev_type_of(is_frl, linerate_mbps, is_tx, lanes) ==
    IF is_tx = 1
    THEN IF is_frl = 1
         THEN IF linerate_mbps = 12000 THEN TX_TI_FRL_12G_R1
              ELSE IF linerate_mbps = 10000 THEN TX_TI_FRL_10G_R1
              ELSE IF linerate_mbps = 8000 THEN TX_TI_FRL_8G_R1
              ELSE IF linerate_mbps = 6000
                   THEN (IF lanes = 4 THEN TX_TI_FRL_6G_4_R1 ELSE TX_TI_FRL_6G_3_R1)
              ELSE IF linerate_mbps = 3000 THEN TX_TI_FRL_3G_R1
              ELSE DevTypeDefault
         ELSE IF linerate_mbps <= 1650 THEN TX_TI_TMDS_14_L_R1
              ELSE IF linerate_mbps > 1650 /\ linerate_mbps <= 3400
                   THEN TX_TI_TMDS_14_H_R1
              ELSE TX_TI_TMDS_20_R1
    ELSE IF is_frl = 1
         THEN IF linerate_mbps = 12000 THEN RX_TI_FRL_12G_R1
              ELSE IF linerate_mbps = 10000 THEN RX_TI_FRL_10G_R1
              ELSE IF linerate_mbps = 8000 THEN RX_TI_FRL_8G_R1
              ELSE IF linerate_mbps = 6000 THEN RX_TI_FRL_6G_4_R1
              ELSE IF linerate_mbps = 3000 THEN RX_TI_FRL_3G_R1
              ELSE DevTypeDefault
         ELSE RX_TI_TMDS_20_R1

\* ti_tmds1204tx_regs[i] of the C source, whose indices start at 0
RegsEntry(i) == ti_tmds1204tx_regs[i + 1]

RegsCount == Len(ti_tmds1204tx_regs)

\* the retimer's registers are addressed by a u8
TiAddrs == 0..255

\* line rates in Mbit/s the HDMI link layer asks for, and some it does not
LineRatesMbps == {1485, 1650, 1651, 3000, 3400, 3401, 5940, 6000, 8000, 9000, 10000, 12000}

LinerateRequests ==
    { [is_frl |-> f, linerate |-> Mul64(W(m), W(1000000)), is_tx |-> t, lanes |-> l] :
        f \in {0, 1}, m \in LineRatesMbps, t \in {0, 1}, l \in {3, 4} }

\* entries past the end of the table the walk is followed through
MaxBeyond == 1

\* a read of ti_tmds1204tx_regs[i] past the last entry: the address is not
\* mapped, or the bytes found there differ from dev_type, or they match
BeyondOutcomes == {"oops", "differs", "matches"}

NoWalk == [linerate_mbps |-> Uninit, dev_type |-> DevTypeDefault, i |-> 0, beyond |-> 0]

InitLinerate ==
    /\ frame = [c \in Callers |-> NoWalk]
    /\ data = [c \in Callers |-> Uninit]
    /\ ret = [c \in Callers |-> 1]
    /\ issued = [c \in Callers |-> <<>>]
    /\ regs = [a \in TiAddrs |-> 0]
    /\ lock = 0
    /\ cal = [by |-> 0, val |-> 0]
    /\ bus = [by |-> 0, addr |-> 0, val |-> 0, cal |-> [by |-> 0, val |-> 0]]
    /\ \E r \in LinerateRequests : req = [c \in Callers |-> r]
    /\ settings = [c \in Callers |-> NoSettings]
    /\ prog = [c \in Callers |-> <<>>]
    /\ ip = [c \in Callers |-> 0]
    /\ pc = [c \in Callers |-> IF c = 1 THEN "select" ELSE "absent"]
    /\ faults = MaxFaults

\* ti_tmds1204tx_linerate_conf, lines 420-485: dev_type is chosen, i = dev_type
LinerateSelect(c) ==
    /\ pc[c] = "select"
    /\ LET mbps == linerate_mbps_of(req[c].linerate)
           dt   == dev_type_of(req[c].is_frl, mbps, req[c].is_tx, req[c].lanes)
       IN  frame' = [frame EXCEPT ![c] =
                        [linerate_mbps |-> mbps, dev_type |-> dt, i |-> dt, beyond |-> 0]]
    /\ pc' = [pc EXCEPT ![c] = "walk"]
    /\ UNCHANGED <<req, settings, prog, ip, data, ret, issued, regs, lock, cal, bus, faults>>

\* lines 487-496: one evaluation of the while condition and, when it holds,
\* one pass of the body; the function returns when the condition fails or a
\* write fails
LinerateWalk(c) ==
    /\ pc[c] = "walk"
    /\ LET f == frame[c]
       IN  IF f.i < RegsCount
           THEN IF RegsEntry(f.i)[1] = f.dev_type
                THEN \E st \in Statuses :
                       /\ faults' = IF st = 0 THEN faults ELSE faults - 1
                       /\ issued' = [issued EXCEPT ![c] =
                              Append(@, <<RegsEntry(f.i)[2], RegsEntry(f.i)[3], st>>)]
                       /\ regs' = IF st = 0
                                  THEN [regs EXCEPT ![RegsEntry(f.i)[2]] = RegsEntry(f.i)[3]]
                                  ELSE regs
                       /\ ret' = [ret EXCEPT ![c] = st]
                       /\ frame' = [frame EXCEPT ![c] =
                              [@ EXCEPT !.i = IF st = 0 THEN @ + 1 ELSE @]]
                       /\ pc' = [pc EXCEPT ![c] = IF st = 0 THEN "walk" ELSE "done"]
                ELSE /\ pc' = [pc EXCEPT ![c] = "done"]
                     /\ UNCHANGED <<frame, ret, issued, regs, faults>>
           ELSE \E o \in BeyondOutcomes :
                  CASE o = "oops" ->
                         /\ pc' = [pc EXCEPT ![c] = "oops"]
                         /\ UNCHANGED <<frame, ret, issued, regs, faults>>
                    [] o = "differs" ->
                         /\ pc' = [pc EXCEPT ![c] = "done"]
                         /\ UNCHANGED <<frame, ret, issued, regs, faults>>
                    [] o = "matches" ->
                         /\ f.beyond < MaxBeyond
                         /\ \E addr \in UninitBytes, val \in UninitBytes, st \in Statuses :
                              /\ faults' = IF st = 0 THEN faults ELSE faults - 1
                              /\ issued' = [issued EXCEPT ![c] = Append(@, <<addr, val, st>>)]
                              /\ regs' = IF st = 0 THEN [regs EXCEPT ![addr] = val] ELSE regs
                              /\ ret' = [ret EXCEPT ![c] = st]
                              /\ frame' = [frame EXCEPT ![c] =
                                     [@ EXCEPT !.i = IF st = 0 THEN @ + 1 ELSE @,
                                               !.beyond = @ + 1]]
                              /\ pc' = [pc EXCEPT ![c] = IF st = 0 THEN "walk" ELSE "done"]
    /\ UNCHANGED <<req, settings, prog, ip, data, lock, cal, bus>>

NextLinerate == \E c \in Callers : LinerateSelect(c) \/ LinerateWalk(c)

SpecLinerate == InitLinerate /\ [][NextLinerate]_vars

(***************************************************************************)
(* C30: for every (is_frl, linerate, is_tx, lanes),                        *)
(* ti_tmds1204tx_linerate_conf reads ti_tmds1204tx_regs only at indices    *)
(* inside the table: dev_type is always the start index of a group, never  *)
(* the default 0xffff; the walk writes exactly the contiguous entries of   *)
(* that one group in table order and stops without reading past the last   *)
(* entry of the table; it returns at the first failed write with that      *)
(* write's error.                                                          *)
(***************************************************************************)
GroupStarts == {ti_tmds1204tx_regs[k][1] : k \in 1..RegsCount}

GroupSize(dev_type) ==
    Cardinality({k \in 1..RegsCount : ti_tmds1204tx_regs[k][1] = dev_type})

C30_WalkInsideTable ==
    \A c \in Callers :
        pc[c] \in {"walk", "done", "oops"} =>
            LET f == frame[c]
                w == issued[c]
                n == Len(w)
            IN  /\ f.dev_type # DevTypeDefault
                /\ f.dev_type \in GroupStarts
                /\ pc[c] # "oops"
                /\ f.beyond = 0
                /\ pc[c] = "walk" => f.i < RegsCount
                /\ n <= GroupSize(f.dev_type)
                /\ \A k \in 1..n :
                      /\ RegsEntry(f.dev_type + k - 1)[1] = f.dev_type
                      /\ w[k][1] = RegsEntry(f.dev_type + k - 1)[2]
                      /\ w[k][2] = RegsEntry(f.dev_type + k - 1)[3]
                      /\ k < n => w[k][3] = 0
                /\ pc[c] = "done" =>
                      /\ n >= 1
                      /\ ret[c] = w[n][3]
                      /\ ret[c] = 0 => n = GroupSize(f.dev_type)

====
